---- MODULE Spec2Model ----
(***************************************************************************)
(* csesh: the trash / restore subsystem (src/lib/cleanup.js) over a small  *)
(* file tree, the trash journal file (trash-manifest.json) and a clock.    *)
(*                                                                         *)
(* A path is a sequence of components and a component is a sequence of     *)
(* tokens, so that basename, join, relative, resolve, String.replace and   *)
(* String.startsWith are computed on the path rather than assumed.         *)
(* A file's content is a token [at, n]: the path the chat tool wrote it at  *)
(* and a version no other existing file written there has, so a lost       *)
(* content can be told from a moved one and a session's file from another  *)
(* session's file.                                                         *)
(*                                                                         *)
(* The scan cache (getCached, setCached, pruneCache, flushCache,           *)
(* clearCache) is modelled over the stat of the cached files, the cache    *)
(* object in memory and cache.json; the classifier (classify) as a          *)
(* function of the summary, with the comparisons of JavaScript on fields   *)
(* that may be undefined.  Each subsystem has its own specification:       *)
(* Spec, SpecTrash, SpecAge and SpecJournal for the trash, SpecCache and   *)
(* SpecCacheFile for the cache, SpecClassify for the classifier, SpecLoad  *)
(* for loadSessions with the tier overrides of metadata.json, SpecScan     *)
(* for the batches of scanAll, SpecCompanion for the companion directories *)
(* of trashed and restored sessions, SpecFlush for the cadence of the      *)
(* prune, SpecParse for fastScan and fullScan of a file's lines,           *)
(* SpecLanguage for detectLanguage, SpecOverride for the tier route of the *)
(* web server, and SpecBatch and SpecRequests for getCached / setCached    *)
(* and trashSession run from await to await by concurrent callers.         *)
(***************************************************************************)
EXTENDS Integers, Sequences, FiniteSets, TLC

\* ------------------------------------------------------------------ bounds
MaxFiles == 2      \* session files the chat tool writes in one behaviour
MaxDirs == 1       \* companion directories the chat tool creates
MaxItems == 2      \* journal entries: trashSession is not called beyond that
MaxDays == 2       \* the clock is sampled at days 0..MaxDays
MaxTouches == 2    \* times the chat tool writes or removes a cached file
MaxPuts == 2       \* setCached calls in one behaviour
MaxMtime == 2      \* modification times are 1..MaxMtime
MaxFlushes == 2    \* flushCache calls of one process
MaxCalls == 11     \* flushCache calls of one process where the prune is followed
MaxTasks == 2      \* calls under way at one time
MaxLines == 4      \* lines of a scanned session file
headCount == 2     \* lines a fast scan reads from the head: 30 in the program
tailCount == 1     \* lines a fast scan reads from the tail: 10 in the program
MaxWords == 6      \* words of the user text of an analysed session
MaxDiff == 2       \* fields in which a classified summary differs from a base one
MaxScan == 5       \* session files found by one scan
batchSize == 2     \* width of a scan batch: 50 in the program

\* --------------------------------------------------------------- constants
MsPerDay == 24 * 60 * 60 * 1000

JSONL == ".jsonl"

Projects == {"pA", "pB"}

\* session ids, as sequences of characters
Ids == {<<"a", "b">>, <<"a", "c">>}

\* ids a caller may pass to restore / purge: full ids and their shared prefix
ArgIds == Ids \cup {<<"a">>}

Days == {0, 1}

Reasons == {"manual"}

\* ------------------------------------------------------------------- paths
CLAUDE_DIR == << <<"/">>, <<".claude">> >>

PROJECTS_DIR == Append(CLAUDE_DIR, <<"projects">>)

TOOL_DIR == CLAUDE_DIR \o << <<"tools">>, <<"csesh">> >>

TRASH_DIR == Append(TOOL_DIR, <<"trash">>)

join(dir, name) == Append(dir, name)

basename(p) == p[Len(p)]

isAbsolute(p) == Len(p) > 0 /\ p[1] = <<"/">>

IsUnder(from, to) == Len(from) <= Len(to) /\ SubSeq(to, 1, Len(from)) = from

\* path.relative(from, to) for a path below from (every session file is
\* below PROJECTS_DIR: scanner.js findSessionFiles joins it)
relative(from, to) ==
    IF IsUnder(from, to) THEN SubSeq(to, Len(from) + 1, Len(to)) ELSE to

resolve(base, rel) == IF isAbsolute(rel) THEN rel ELSE base \o rel

resolveOriginalPath(storedPath) ==
    IF isAbsolute(storedPath) THEN storedPath
    ELSE resolve(PROJECTS_DIR, storedPath)

startsWith(s, p) == Len(p) <= Len(s) /\ SubSeq(s, 1, Len(p)) = p

HasJsonl(comp) == \E k \in 1..Len(comp) : comp[k] = JSONL

\* a component without its first ".jsonl" token
DropJsonl(comp) ==
    LET k == CHOOSE k \in 1..Len(comp) :
                 comp[k] = JSONL /\ \A j \in 1..(k - 1) : comp[j] # JSONL
    IN SubSeq(comp, 1, k - 1) \o SubSeq(comp, k + 1, Len(comp))

\* str.replace('.jsonl', ''): the first occurrence in the whole path
replaceJsonl(p) ==
    IF \E i \in 1..Len(p) : HasJsonl(p[i])
    THEN LET i == CHOOSE i \in 1..Len(p) :
                      HasJsonl(p[i]) /\ \A j \in 1..(i - 1) : ~HasJsonl(p[j])
         IN [p EXCEPT ![i] = DropJsonl(p[i])]
    ELSE p

\* scanner.js findSessionFiles: the session of project proj with id id
SessionFile(proj, id) ==
    [id |-> id, filePath |-> join(join(PROJECTS_DIR, <<proj>>), Append(id, JSONL))]

\* the session files of the model: one id present in both projects, one in a single project
Sessions == {SessionFile(proj, id) : proj \in Projects, id \in Ids} \ {SessionFile("pB", <<"a", "c">>)}

OrigPaths == {s.filePath : s \in Sessions}

TrashPaths == {join(TRASH_DIR, basename(p)) : p \in OrigPaths}

FilePaths == OrigPaths \cup TrashPaths

DirPaths == {replaceJsonl(p) : p \in FilePaths}

NoFile == [at |-> <<>>, n |-> 0]

NoDir == FALSE

\* ------------------------------------------------------------------- clock
toISOString(t) == [day |-> t \div MsPerDay, ms |-> t % MsPerDay]

getTime(iso) == iso.day * MsPerDay + iso.ms

\* ------------------------------------------------------------------- state
VARIABLES
    files,          \* FilePaths -> content token, NoFile when absent
    dirs,           \* DirPaths -> TRUE where a companion directory exists
    manifestFile,   \* trash-manifest.json: [kind, items]
    now,            \* Date.now(), in milliseconds
    written,        \* session files the chat tool has written so far
    dirsMade,       \* companion directories it has created so far
    last,           \* the last call: operation, argument, outcome
    stats,          \* CachePaths -> what stat reports of the file, NoStat when absent
    memoryCache,    \* the process's cache object, NullCache before the first load
    cacheFile,      \* cache.json: [kind, version, sessions]
    flushCounter,   \* flushCache calls of this process
    flushCalls,     \* flushCache calls made in this process, those that threw included
    touched,        \* file changes the chat tool has made so far
    puts,           \* setCached calls so far
    summary,        \* the summary object handed to classify
    metadata,       \* metadata.json: Ids -> the session's tierOverride, null when none
    scanTotal,      \* files.length of the scan under way
    scanI,          \* i of the batch loop
    inflight,       \* indices of the files whose scan is pending
    outcomes,       \* index of a file whose scan has started -> "pending", "summary" or "null"
    scanResults,    \* results: indices of the files summarised, in order
    scanPc,         \* where the scan is: "idle", "loop", "await", "done"
    fileLines,      \* the lines of the session file a scan reads
    userText,       \* the words of the user text handed to detectLanguage
    tasks,          \* the calls under way: where each stands, and its locals
    heap,           \* the cache objects loadCache has created in this process
    memoryRef       \* the object memoryCache refers to, 0 for null

trashVars == <<files, dirs, manifestFile, now, written, dirsMade>>

cacheVars == <<stats, memoryCache, cacheFile, flushCounter, flushCalls, touched, puts>>

scanVars == <<scanTotal, scanI, inflight, outcomes, scanResults, scanPc>>

inputVars == <<fileLines, userText>>

asyncVars == <<tasks, heap, memoryRef>>

sessionVars == <<summary, metadata, scanVars, inputVars, asyncVars>>

vars == <<files, dirs, manifestFile, now, written, dirsMade, last,
          stats, memoryCache, cacheFile, flushCounter, flushCalls, touched, puts, summary,
          metadata, scanTotal, scanI, inflight, outcomes, scanResults, scanPc,
          fileLines, userText, tasks, heap, memoryRef>>

NoPath == <<>>

\* the null that getCached returns
NoData == [id |-> "null", analyzed |-> FALSE]

NoCall == [op |-> "none", arg |-> <<>>, path |-> NoPath, status |-> "ok",
           rid |-> <<>>, rpath |-> NoPath, content |-> NoFile,
           removed |-> 0, remaining |-> 0, items |-> <<>>,
           data |-> NoData, analyze |-> FALSE, wrote |-> FALSE, ranPrune |-> FALSE,
           loaded |-> FALSE,
           prunedCount |-> 0, session |-> [id |-> "none"], sessions |-> << >>,
           junkLabel |-> "none"]

Call(op) == [NoCall EXCEPT !.op = op]

\* ----------------------------------------------------------------- journal
\* loadManifest: a missing or unparseable file reads as { items: [] }
loadManifest(file) ==
    IF file.kind = "ok" THEN [items |-> file.items] ELSE [items |-> <<>>]

\* a saveManifest that returns without writing
saveManifestNoWrite(file, manifest, fault) == file

\* saveManifest: writeFile either succeeds, fails leaving the file as it
\* was (EACCES), or fails after truncating it (ENOSPC)
saveManifest(file, manifest, fault) ==
    CASE fault = "none" -> [kind |-> "ok", items |-> manifest.items]
      [] fault = "EACCES" -> file
      [] fault = "ENOSPC" -> [kind |-> "corrupt", items |-> <<>>]

WriteFaults == {"none", "EACCES", "ENOSPC"}

\* what the caller sees of a call whose journal write met fault
outcome(fault) == IF fault = "none" THEN "ok" ELSE fault

\* Array.prototype.findIndex: the first index whose element satisfies the
\* callback, 0 if none; tests[k] is the callback's value on the k-th element
findIndex(tests) ==
    IF \E i \in DOMAIN tests : tests[i]
    THEN CHOOSE i \in DOMAIN tests :
             tests[i] /\ \A j \in 1..(i - 1) : ~tests[j]
    ELSE 0

\* a splice that counts from 1 where the array counts from 0
spliceOffByOne(items, idx) == SubSeq(items, 1, idx) \o SubSeq(items, idx + 2, Len(items))

\* Array.prototype.splice(idx, 1)
splice(items, idx) == SubSeq(items, 1, idx - 1) \o SubSeq(items, idx + 1, Len(items))

\* fs.rename of a file: replaces whatever file is at the target
renameFile(fs, from, to) == [fs EXCEPT ![to] = fs[from], ![from] = NoFile]

\* the guarded companion move: stat, then rename; a rename onto an existing
\* (non-empty) directory fails with ENOTEMPTY and is swallowed by the catch
moveCompanion(ds, from, to) ==
    IF ds[from] # NoDir /\ ds[to] = NoDir
    THEN [ds EXCEPT ![to] = ds[from], ![from] = NoDir]
    ELSE ds

\* ------------------------------------------------- the scan cache: values
CACHE_VERSION == 2

PRUNE_INTERVAL == 10

\* the session files the cache is asked about
CachePaths == {SessionFile("pA", id).filePath : id \in Ids}

\* file sizes
Sizes == {100, 200}

\* stat rejects: the file does not exist
NoStat == [mtimeMs |-> 0, size |-> 0]

Stats == [mtimeMs : 1..MaxMtime, size : Sizes]

\* the summaries of a fast scan and of a full scan with analysis
Summaries == {[id |-> "fast", analyzed |-> FALSE], [id |-> "full", analyzed |-> TRUE]}

\* cache.sessions[filePath] is undefined
NoEntry == [mtime |-> 0, size |-> 0, data |-> NoData]

NoSessions == [p \in CachePaths |-> NoEntry]

\* memoryCache = null
NullCache == [isNull |-> TRUE, version |-> 0, sessions |-> NoSessions]

\* { version: CACHE_VERSION, sessions: {} }
EmptyCache == [isNull |-> FALSE, version |-> CACHE_VERSION, sessions |-> NoSessions]

\* --------------------------------------------------- the classifier: values
TIER_AUTO_DELETE == 1

TIER_SUGGESTED == 2

TIER_REVIEW == 3

TIER_KEEP == 4

TIER_LABELS ==
    (TIER_AUTO_DELETE :> "auto-delete") @@ (TIER_SUGGESTED :> "suggested-delete")
        @@ (TIER_REVIEW :> "review") @@ (TIER_KEEP :> "keep")

\* TIER_SCORES, in tenths: 1.0, 0.7, 0.4, 0.1
TIER_SCORES ==
    (TIER_AUTO_DELETE :> 10) @@ (TIER_SUGGESTED :> 7)
        @@ (TIER_REVIEW :> 4) @@ (TIER_KEEP :> 1)

\* the value of a field the summary does not have
undefined == -1

\* tierOverride of a session without an override
null == -2

\* a number that is not an integer is kept as NonInteger plus its tenths
NonInteger == 1000

\* TIER_LABELS[tier]: undefined where the object has no such key
labelOf(tier) == IF tier \in DOMAIN TIER_LABELS THEN TIER_LABELS[tier] ELSE "undefined"

\* TIER_SCORES[tier]
scoreOf(tier) == IF tier \in DOMAIN TIER_SCORES THEN TIER_SCORES[tier] ELSE undefined

\* titles, as sequences of words and blanks
TitleFix == <<"Fix", " ", "the", " ", "widget", " ", "component">>

Titles == {<< >>, <<" ">>, <<" ", "Test">>, <<"test", " ", "it">>, TitleFix}

\* a summary as the scanner hands it to the classifier, not yet classified
Unclassified ==
    [tier |-> undefined, tierLabel |-> "undefined", autoTier |-> undefined,
     junkScore |-> undefined, junkReasons |-> << >>]

\* what an earlier classification as SUGGESTED left on the summary
Suggested ==
    [tier |-> TIER_SUGGESTED, tierLabel |-> TIER_LABELS[TIER_SUGGESTED],
     autoTier |-> TIER_SUGGESTED, junkScore |-> TIER_SCORES[TIER_SUGGESTED],
     junkReasons |-> <<"short session with no tool usage">>]

\* the classification fields of a summary handed to classify
Priors == {Unclassified, Suggested}

\* the conversation of the classifier's tests: REVIEW by the rules
makeSession ==
    [category |-> "conversation", fileSizeBytes |-> 10000,
     userMessageCount |-> 2, assistantMessageCount |-> 2,
     totalRecordCount |-> undefined, durationMs |-> 180000,
     totalToolCalls |-> 0, turnCount |-> 0, thinkingBlocks |-> 0,
     uniqueFilesCount |-> 0, title |-> TitleFix, tierOverride |-> null]
    @@ Unclassified

\* a long working session: every KEEP rule applies
longSession ==
    [category |-> "conversation", fileSizeBytes |-> 60000,
     userMessageCount |-> 3, assistantMessageCount |-> 3,
     totalRecordCount |-> 10, durationMs |-> 400000,
     totalToolCalls |-> 3, turnCount |-> 4, thinkingBlocks |-> 2,
     uniqueFilesCount |-> 2, title |-> TitleFix, tierOverride |-> null]
    @@ Unclassified

\* the values a field of a summary is given
FieldValues ==
    [category |-> {"empty", "hook-only", "snapshot-only", "conversation"},
     fileSizeBytes |-> {undefined, 500, 2000, 10000, 60000},
     userMessageCount |-> {undefined, 0, 1, 2, 3},
     assistantMessageCount |-> {undefined, 0, 1, 2, 3},
     totalRecordCount |-> {undefined, 2, 10},
     durationMs |-> {undefined, 0, 30000, 90000, 180000, 400000},
     totalToolCalls |-> {undefined, 0, 1, 3},
     turnCount |-> {undefined, 0, 4},
     thinkingBlocks |-> {undefined, 0, 2},
     uniqueFilesCount |-> {undefined, 0, 2},
     title |-> Titles,
     tierOverride |-> {undefined, null, 1, 2, 3, 4}]

\* the base summaries
Bases == {makeSession, longSession}

\* a field and a value it is given
Edits == UNION {{<<f, v>> : v \in FieldValues[f]} : f \in DOMAIN FieldValues}

\* session with the first k of the edits es made
RECURSIVE patch(_, _, _)
patch(session, es, k) ==
    IF k = 0 THEN session
    ELSE patch([session EXCEPT ![es[k][1]] = es[k][2]], es, k - 1)

\* no scan is under way
ScanIdle ==
    /\ scanTotal = 0
    /\ scanI = 0
    /\ inflight = {}
    /\ outcomes = << >>
    /\ scanResults = << >>
    /\ scanPc = "idle"

\* ------------------------------------------------------------------- Init
\* no file is being scanned and no text analysed
NoInput == fileLines = << >> /\ userText = << >>

Tasks == 1..MaxTasks

\* a call that has not started
NoTask == [pc |-> "idle"]

\* no call is under way and loadCache has created no object
NoTasks ==
    /\ tasks = [t \in Tasks |-> NoTask]
    /\ heap = << >>
    /\ memoryRef = 0

Init ==
    /\ files = [p \in FilePaths |-> NoFile]
    /\ dirs = [p \in DirPaths |-> NoDir]
    /\ manifestFile = [kind |-> "missing", items |-> <<>>]
    /\ now = 0
    /\ written = 0
    /\ dirsMade = 0
    /\ last = NoCall
    /\ stats = [p \in CachePaths |-> [mtimeMs |-> 1, size |-> 100]]
    /\ memoryCache = NullCache
    /\ cacheFile = [kind |-> "missing", version |-> 0, sessions |-> NoSessions]
    /\ flushCounter = 0
    /\ flushCalls = 0
    /\ touched = 0
    /\ puts = 0
    /\ summary = makeSession
    /\ metadata = [id \in Ids |-> null]
    /\ ScanIdle
    /\ NoInput
    /\ NoTasks

\* ------------------------------------------------------------- environment
\* the chat tool writes a new session log
FreshContent(fs, path) ==
    [at |-> path,
     n |-> CHOOSE k \in 1..(MaxFiles + 1) :
               /\ \A p \in FilePaths : fs[p] # [at |-> path, n |-> k]
               /\ \A j \in 1..(k - 1) : \E p \in FilePaths : fs[p] = [at |-> path, n |-> j]]

WriteSession(s) ==
    /\ written < MaxFiles
    /\ files[s.filePath] = NoFile
    /\ written' = written + 1
    /\ files' = [files EXCEPT ![s.filePath] = FreshContent(files, s.filePath)]
    /\ last' = Call("write")
    /\ UNCHANGED <<dirs, manifestFile, now, dirsMade>>
    /\ UNCHANGED <<cacheVars, sessionVars>>

\* the chat tool creates the companion directory of a session
\* (of a session whose log exists)
MakeCompanion(s) ==
    /\ files[s.filePath] # NoFile
    /\ dirsMade < MaxDirs
    /\ dirs[replaceJsonl(s.filePath)] = NoDir
    /\ dirsMade' = dirsMade + 1
    /\ dirs' = [dirs EXCEPT ![replaceJsonl(s.filePath)] = TRUE]
    /\ last' = Call("mkdir")
    /\ UNCHANGED <<files, manifestFile, now, written>>
    /\ UNCHANGED <<cacheVars, sessionVars>>

\* a day passes
Tick ==
    /\ (now + MsPerDay) \div MsPerDay <= MaxDays
    /\ now' = now + MsPerDay
    /\ last' = Call("tick")
    /\ UNCHANGED <<files, dirs, manifestFile, written, dirsMade>>
    /\ UNCHANGED <<cacheVars, sessionVars>>

\* ------------------------------------------------------------ trashSession
trashPathOf(session) == join(TRASH_DIR, basename(session.filePath))

trashItem(session, reason) ==
    [id |-> session.id,
     originalPath |-> relative(PROJECTS_DIR, session.filePath),
     trashPath |-> trashPathOf(session),
     trashedAt |-> toISOString(now),
     reason |-> reason]

trashSession(session, reason, fault) ==
    LET trashPath == trashPathOf(session)
        companionDir == replaceJsonl(session.filePath)
        trashCompanion == join(TRASH_DIR, basename(companionDir))
        manifest == loadManifest(manifestFile)
        pushed == [items |-> Append(manifest.items, trashItem(session, reason))]
    IN
    /\ Len(manifest.items) < MaxItems
    /\ IF files[session.filePath] = NoFile
       THEN \* rename rejects with ENOENT before anything has moved
            /\ fault = "none"
            /\ last' = [Call("trash") EXCEPT !.arg = session.id,
                            !.path = session.filePath, !.status = "ENOENT"]
            /\ UNCHANGED <<files, dirs, manifestFile>>
       ELSE /\ files' = renameFile(files, session.filePath, trashPath)
            /\ dirs' = moveCompanion(dirs, companionDir, trashCompanion)
            /\ manifestFile' = saveManifest(manifestFile, pushed, fault)
            /\ last' = [Call("trash") EXCEPT !.arg = session.id,
                            !.path = session.filePath,
                            !.status = outcome(fault),
                            !.rid = IF fault = "none" THEN session.id ELSE <<>>,
                            !.rpath = IF fault = "none" THEN trashPath ELSE NoPath,
                            !.content = files[session.filePath]]
    /\ UNCHANGED <<now, written, dirsMade>>
    /\ UNCHANGED <<cacheVars, sessionVars>>

\* trashSession as the event loop runs it, one step from await to await; a
\* request's call is a task, and the steps of two tasks interleave.
\* The first step: mkdir, rename of the file, and the companion's move
TrashBegin(t, session, reason) ==
    /\ tasks[t].pc = "idle"
    /\ IF files[session.filePath] = NoFile
       THEN \* rename rejects with ENOENT: the call is over
            /\ tasks' = [tasks EXCEPT ![t] =
                   [pc |-> "done", session |-> session, status |-> "ENOENT"]]
            /\ UNCHANGED <<files, dirs>>
       ELSE /\ files' = renameFile(files, session.filePath, trashPathOf(session))
            /\ dirs' = moveCompanion(dirs, replaceJsonl(session.filePath),
                                     join(TRASH_DIR, basename(replaceJsonl(session.filePath))))
            /\ tasks' = [tasks EXCEPT ![t] =
                   [pc |-> "moved", session |-> session, reason |-> reason]]
    /\ last' = [Call("trashBegin") EXCEPT !.arg = session.id, !.path = session.filePath]
    /\ UNCHANGED <<manifestFile, now, written, dirsMade, heap, memoryRef>>
    /\ UNCHANGED <<cacheVars, summary, metadata, scanVars, inputVars>>

\* const manifest = await loadManifest(); manifest.items.push({...})
TrashLoad(t) ==
    /\ tasks[t].pc = "moved"
    /\ tasks' = [tasks EXCEPT ![t] =
           [pc |-> "loaded", session |-> tasks[t].session,
            manifest |-> [items |-> Append(loadManifest(manifestFile).items,
                                           trashItem(tasks[t].session, tasks[t].reason))]]]
    /\ last' = [Call("trashLoad") EXCEPT !.arg = tasks[t].session.id]
    /\ UNCHANGED <<trashVars, heap, memoryRef>>
    /\ UNCHANGED <<cacheVars, summary, metadata, scanVars, inputVars>>

\* await saveManifest(manifest); return { id, trashPath }
TrashSave(t) ==
    /\ tasks[t].pc = "loaded"
    /\ manifestFile' = saveManifest(manifestFile, tasks[t].manifest, "none")
    /\ tasks' = [tasks EXCEPT ![t] =
           [pc |-> "done", session |-> tasks[t].session, status |-> "ok"]]
    /\ last' = [Call("trash") EXCEPT !.arg = tasks[t].session.id,
                    !.path = tasks[t].session.filePath,
                    !.rid = tasks[t].session.id,
                    !.rpath = trashPathOf(tasks[t].session)]
    /\ UNCHANGED <<files, dirs, now, written, dirsMade, heap, memoryRef>>
    /\ UNCHANGED <<cacheVars, summary, metadata, scanVars, inputVars>>

\* ---------------------------------------------------------- restoreSession
\* restoreSession given the prefix lookup that deleteFromTrash has
restoreMatchPrefix(i, id) == i.id = id \/ startsWith(i.id, id)

\* the findIndex predicate of restoreSession: i => i.id === id
restoreMatch(i, id) == i.id = id

restoreSession(id, fault) ==
    LET manifest == loadManifest(manifestFile)
        idx == findIndex([k \in DOMAIN manifest.items |-> restoreMatch(manifest.items[k], id)])
        item == manifest.items[idx]
        originalPath == resolveOriginalPath(item.originalPath)
        companionTrash == replaceJsonl(item.trashPath)
        companionOriginal == replaceJsonl(originalPath)
        spliced == [items |-> splice(manifest.items, idx)]
    IN
    /\ IF idx = 0
       THEN /\ fault = "none"
            /\ last' = [Call("restore") EXCEPT !.arg = id, !.status = "notfound"]
            /\ UNCHANGED <<files, dirs, manifestFile>>
       ELSE IF files[item.trashPath] = NoFile
       THEN \* rename rejects with ENOENT
            /\ fault = "none"
            /\ last' = [Call("restore") EXCEPT !.arg = id, !.status = "ENOENT"]
            /\ UNCHANGED <<files, dirs, manifestFile>>
       ELSE /\ files' = renameFile(files, item.trashPath, originalPath)
            /\ dirs' = moveCompanion(dirs, companionTrash, companionOriginal)
            /\ manifestFile' = saveManifest(manifestFile, spliced, fault)
            /\ last' = [Call("restore") EXCEPT !.arg = id,
                            !.status = outcome(fault),
                            !.rid = IF fault = "none" THEN id ELSE <<>>,
                            !.rpath = IF fault = "none" THEN originalPath ELSE NoPath,
                            !.content = files[item.trashPath]]
    /\ UNCHANGED <<now, written, dirsMade>>
    /\ UNCHANGED <<cacheVars, sessionVars>>

\* --------------------------------------------------------- deleteFromTrash
\* unlink, tolerating a file that is already gone
unlink(fs, p) == [fs EXCEPT ![p] = NoFile]

\* rm(companion, { recursive: true, force: true }) behind the stat guard
rmCompanion(ds, p) == [ds EXCEPT ![p] = NoDir]

\* the findIndex predicate of deleteFromTrash: i => i.id === id || i.id.startsWith(id)
deleteMatch(i, id) == i.id = id \/ startsWith(i.id, id)

deleteFromTrash(id, fault) ==
    LET manifest == loadManifest(manifestFile)
        idx == findIndex([k \in DOMAIN manifest.items |-> deleteMatch(manifest.items[k], id)])
        item == manifest.items[idx]
        companion == replaceJsonl(item.trashPath)
        spliced == [items |-> splice(manifest.items, idx)]
    IN
    /\ IF idx = 0
       THEN /\ fault = "none"
            /\ last' = [Call("delete") EXCEPT !.arg = id, !.status = "notfound"]
            /\ UNCHANGED <<files, dirs, manifestFile>>
       ELSE /\ files' = unlink(files, item.trashPath)
            /\ dirs' = rmCompanion(dirs, companion)
            /\ manifestFile' = saveManifest(manifestFile, spliced, fault)
            /\ last' = [Call("delete") EXCEPT !.arg = id,
                            !.status = outcome(fault),
                            !.rid = IF fault = "none" THEN item.id ELSE <<>>,
                            !.rpath = item.trashPath,
                            !.content = files[item.trashPath]]
    /\ UNCHANGED <<now, written, dirsMade>>
    /\ UNCHANGED <<cacheVars, sessionVars>>

\* --------------------------------------------------------------- listTrash
\* listTrash given a loadManifest that lets the read error through
listTrashStrict ==
    /\ last' = [Call("list") EXCEPT
                    !.status = IF manifestFile.kind = "ok" THEN "ok" ELSE "ENOENT",
                    !.items = manifestFile.items]
    /\ UNCHANGED <<files, dirs, manifestFile, now, written, dirsMade>>
    /\ UNCHANGED <<cacheVars, sessionVars>>

listTrash ==
    /\ last' = [Call("list") EXCEPT !.items = loadManifest(manifestFile).items]
    /\ UNCHANGED <<files, dirs, manifestFile, now, written, dirsMade>>
    /\ UNCHANGED <<cacheVars, sessionVars>>

\* -------------------------------------------------------------- emptyTrash
cutoffOf(olderThanDays) == now - olderThanDays * 24 * 60 * 60 * 1000

\* the age test with <= for <
isOldInclusive(item, cutoff) == getTime(item.trashedAt) <= cutoff

isOld(item, cutoff) == getTime(item.trashedAt) < cutoff

RECURSIVE toRemoveOf(_, _)
toRemoveOf(items, cutoff) ==
    IF items = <<>> THEN <<>>
    ELSE (IF isOld(Head(items), cutoff) THEN <<Head(items)>> ELSE <<>>)
         \o toRemoveOf(Tail(items), cutoff)

RECURSIVE toKeepOf(_, _)
toKeepOf(items, cutoff) ==
    IF items = <<>> THEN <<>>
    ELSE (IF isOld(Head(items), cutoff) THEN <<>> ELSE <<Head(items)>>)
         \o toKeepOf(Tail(items), cutoff)

RECURSIVE unlinkAll(_, _)
unlinkAll(fs, items) ==
    IF items = <<>> THEN fs
    ELSE unlinkAll(unlink(fs, Head(items).trashPath), Tail(items))

RECURSIVE rmCompanions(_, _)
rmCompanions(ds, items) ==
    IF items = <<>> THEN ds
    ELSE rmCompanions(rmCompanion(ds, replaceJsonl(Head(items).trashPath)), Tail(items))

emptyTrash(olderThanDays, fault) ==
    LET manifest == loadManifest(manifestFile)
        cutoff == cutoffOf(olderThanDays)
        toRemove == toRemoveOf(manifest.items, cutoff)
        toKeep == toKeepOf(manifest.items, cutoff)
    IN
    /\ files' = unlinkAll(files, toRemove)
    /\ dirs' = rmCompanions(dirs, toRemove)
    /\ manifestFile' = saveManifest(manifestFile, [items |-> toKeep], fault)
    /\ last' = [Call("empty") EXCEPT !.arg = <<olderThanDays>>,
                    !.status = outcome(fault),
                    !.removed = IF fault = "none" THEN Len(toRemove) ELSE 0,
                    !.remaining = IF fault = "none" THEN Len(toKeep) ELSE 0]
    /\ UNCHANGED <<now, written, dirsMade>>
    /\ UNCHANGED <<cacheVars, sessionVars>>

\* -------------------------------------------------------------- scan cache
\* a loadCache without the catch: on a file that is missing or does not
\* parse nothing is assigned to memoryCache
loadCacheNoCatch(mem, file) ==
    IF ~mem.isNull THEN mem
    ELSE IF file.kind = "ok"
    THEN [isNull |-> FALSE,
          version |-> IF file.version < CACHE_VERSION THEN CACHE_VERSION ELSE file.version,
          sessions |-> file.sessions]
    ELSE NullCache

\* loadCache: the cache object in memory, read from the file at the first
\* call of the process, empty when the file is missing or does not parse
loadCache(mem, file) ==
    IF ~mem.isNull THEN mem
    ELSE IF file.kind = "ok"
    THEN [isNull |-> FALSE,
          version |-> IF file.version < CACHE_VERSION THEN CACHE_VERSION ELSE file.version,
          sessions |-> file.sessions]
    ELSE EmptyCache

\* the cache file after writeFile(CACHE_FILE, JSON.stringify(cache))
writeCacheFile(file, cache, fault) ==
    CASE fault = "none" -> [kind |-> "ok", version |-> cache.version, sessions |-> cache.sessions]
      [] fault = "EACCES" -> file
      [] fault = "ENOSPC" -> [kind |-> "corrupt", version |-> 0, sessions |-> NoSessions]

\* an isValid that compares the modification time only
isValidMtimeOnly(entry, fileInfo) ==
    entry # NoEntry /\ entry.mtime = fileInfo.mtimeMs

isValid(entry, fileInfo) ==
    entry # NoEntry /\ entry.mtime = fileInfo.mtimeMs /\ entry.size = fileInfo.size

\* delete cache.sessions[filePath]
deleteEntry(cache, filePath) ==
    [cache EXCEPT !.sessions[filePath] = NoEntry]

\* the chat tool appends to a session file or writes it anew
TouchFile(p, fileInfo) ==
    /\ touched < MaxTouches
    /\ stats[p] # fileInfo
    /\ stats' = [stats EXCEPT ![p] = fileInfo]
    /\ touched' = touched + 1
    /\ last' = [Call("touch") EXCEPT !.path = p]
    /\ UNCHANGED <<memoryCache, cacheFile, flushCounter, flushCalls, puts>>
    /\ UNCHANGED <<trashVars, sessionVars>>

\* a session file is removed (trashed, or deleted by the user)
RemoveFile(p) ==
    /\ touched < MaxTouches
    /\ stats[p] # NoStat
    /\ stats' = [stats EXCEPT ![p] = NoStat]
    /\ touched' = touched + 1
    /\ last' = [Call("remove") EXCEPT !.path = p]
    /\ UNCHANGED <<memoryCache, cacheFile, flushCounter, flushCalls, puts>>
    /\ UNCHANGED <<trashVars, sessionVars>>

\* a new process starts: nothing in memory, cache.json as it was left
Restart ==
    /\ ~memoryCache.isNull \/ flushCounter > 0
    /\ memoryCache' = NullCache
    /\ flushCounter' = 0
    /\ flushCalls' = 0
    /\ last' = Call("restart")
    /\ UNCHANGED <<stats, cacheFile, touched, puts>>
    /\ UNCHANGED <<trashVars, sessionVars>>

\* a getCached that honours requireAnalyzed only after the validity test
getCachedResultLax(entry, fileInfo, requireAnalyzed) ==
    IF entry = NoEntry THEN NoData
    ELSE IF fileInfo # NoStat /\ isValid(entry, fileInfo) THEN entry.data
    ELSE NoData

\* what getCached returns
getCachedResult(entry, fileInfo, requireAnalyzed) ==
    IF entry = NoEntry THEN NoData
    ELSE IF requireAnalyzed /\ ~entry.data.analyzed THEN NoData
    ELSE IF fileInfo # NoStat /\ isValid(entry, fileInfo) THEN entry.data
    ELSE NoData

getCached(filePath, requireAnalyzed) ==
    LET cache == loadCache(memoryCache, cacheFile)
        entry == cache.sessions[filePath]
        statThrows == stats[filePath] = NoStat
        reachesStat == entry # NoEntry /\ ~(requireAnalyzed /\ ~entry.data.analyzed)
    IN
    /\ memoryCache' = IF reachesStat /\ statThrows
                      THEN deleteEntry(cache, filePath)
                      ELSE cache
    /\ last' = [Call("getCached") EXCEPT !.path = filePath,
                    !.loaded = memoryCache.isNull,
                    !.analyze = requireAnalyzed,
                    !.data = getCachedResult(entry, stats[filePath], requireAnalyzed)]
    /\ UNCHANGED <<stats, cacheFile, flushCounter, flushCalls, touched, puts>>
    /\ UNCHANGED <<trashVars, sessionVars>>

\* a setCached that saves the cache after the update
setCachedWriteThrough(filePath, data) ==
    LET cache == loadCache(memoryCache, cacheFile)
        fileInfo == stats[filePath]
        stored == IF fileInfo = NoStat
                  THEN cache
                  ELSE [cache EXCEPT !.sessions[filePath] =
                           [mtime |-> fileInfo.mtimeMs, size |-> fileInfo.size, data |-> data]]
    IN
    /\ puts < MaxPuts
    /\ puts' = puts + 1
    /\ memoryCache' = stored
    /\ cacheFile' = writeCacheFile(cacheFile, stored, "none")
    /\ last' = [Call("setCached") EXCEPT !.path = filePath, !.data = data,
                    !.loaded = memoryCache.isNull]
    /\ UNCHANGED <<stats, flushCounter, flushCalls, touched>>
    /\ UNCHANGED <<trashVars, sessionVars>>

setCached(filePath, data) ==
    LET cache == loadCache(memoryCache, cacheFile)
        fileInfo == stats[filePath]
    IN
    /\ puts < MaxPuts
    /\ puts' = puts + 1
    /\ memoryCache' = IF fileInfo = NoStat
                      THEN cache
                      ELSE [cache EXCEPT !.sessions[filePath] =
                               [mtime |-> fileInfo.mtimeMs, size |-> fileInfo.size, data |-> data]]
    /\ last' = [Call("setCached") EXCEPT !.path = filePath, !.data = data,
                    !.loaded = memoryCache.isNull]
    /\ UNCHANGED <<stats, cacheFile, flushCounter, flushCalls, touched>>
    /\ UNCHANGED <<trashVars, sessionVars>>

\* the entries of the paths at which stat rejects
stalePaths(cache) ==
    {p \in CachePaths : cache.sessions[p] # NoEntry /\ stats[p] = NoStat}

\* a prune that drops every entry whose file is not as recorded
prunedOfChanged(cache) ==
    [cache EXCEPT !.sessions = [p \in CachePaths |->
        IF cache.sessions[p] # NoEntry /\ isValid(cache.sessions[p], stats[p])
        THEN cache.sessions[p] ELSE NoEntry]]

\* the cache after the loop of pruneCache
prunedOf(cache) ==
    [cache EXCEPT !.sessions = [p \in CachePaths |->
        IF p \in stalePaths(cache) THEN NoEntry ELSE cache.sessions[p]]]

pruneCache(fault) ==
    LET cache == loadCache(memoryCache, cacheFile)
        prunedCount == Cardinality(stalePaths(cache))
    IN
    /\ prunedCount = 0 => fault = "none"
    /\ memoryCache' = prunedOf(cache)
    /\ cacheFile' = IF prunedCount > 0
                    THEN writeCacheFile(cacheFile, prunedOf(cache), fault)
                    ELSE cacheFile
    /\ last' = [Call("pruneCache") EXCEPT
                    !.status = outcome(fault),
                    !.loaded = memoryCache.isNull,
                    !.wrote = prunedCount > 0,
                    !.prunedCount = IF fault = "none" THEN prunedCount ELSE 0]
    /\ UNCHANGED <<stats, flushCounter, flushCalls, touched, puts>>
    /\ UNCHANGED <<trashVars, sessionVars>>

\* a flushCache that counts the call before it saves
flushCacheCountFirst(fault) ==
    LET saves == ~memoryCache.isNull
        saved == IF saves THEN writeCacheFile(cacheFile, memoryCache, fault) ELSE cacheFile
        prunes == (flushCounter + 1) % PRUNE_INTERVAL = 0
        cache == loadCache(memoryCache, saved)
        prunedCount == Cardinality(stalePaths(cache))
    IN
    /\ flushCalls' = flushCalls + 1
    /\ fault # "none" => (saves \/ (prunes /\ prunedCount > 0))
    /\ IF saves /\ fault # "none"
       THEN \* saveCache throws before the counter is touched
            /\ cacheFile' = saved
            /\ last' = [Call("flushCache") EXCEPT !.status = fault, !.wrote = TRUE]
            /\ flushCounter' = flushCounter + 1
            /\ UNCHANGED memoryCache
       ELSE IF prunes
       THEN \* pruneCache, which loads the cache if this process has not yet
            /\ flushCounter' = flushCounter + 1
            /\ memoryCache' = prunedOf(cache)
            /\ cacheFile' = IF prunedCount > 0
                            THEN writeCacheFile(saved, prunedOf(cache), fault)
                            ELSE saved
            /\ last' = [Call("flushCache") EXCEPT
                            !.status = outcome(fault),
                            !.loaded = memoryCache.isNull,
                            !.wrote = saves \/ prunedCount > 0,
                            !.ranPrune = fault = "none",
                            !.prunedCount = IF fault = "none" THEN prunedCount ELSE 0]
       ELSE /\ flushCounter' = flushCounter + 1
            /\ cacheFile' = saved
            /\ last' = [Call("flushCache") EXCEPT !.wrote = saves]
            /\ UNCHANGED memoryCache
    /\ UNCHANGED <<stats, touched, puts>>
    /\ UNCHANGED <<trashVars, sessionVars>>

flushCache(fault) ==
    LET saves == ~memoryCache.isNull
        saved == IF saves THEN writeCacheFile(cacheFile, memoryCache, fault) ELSE cacheFile
        prunes == (flushCounter + 1) % PRUNE_INTERVAL = 0
        cache == loadCache(memoryCache, saved)
        prunedCount == Cardinality(stalePaths(cache))
    IN
    /\ flushCalls' = flushCalls + 1
    /\ fault # "none" => (saves \/ (prunes /\ prunedCount > 0))
    /\ IF saves /\ fault # "none"
       THEN \* saveCache throws before the counter is touched
            /\ cacheFile' = saved
            /\ last' = [Call("flushCache") EXCEPT !.status = fault, !.wrote = TRUE]
            /\ UNCHANGED <<memoryCache, flushCounter>>
       ELSE IF prunes
       THEN \* pruneCache, which loads the cache if this process has not yet
            /\ flushCounter' = flushCounter + 1
            /\ memoryCache' = prunedOf(cache)
            /\ cacheFile' = IF prunedCount > 0
                            THEN writeCacheFile(saved, prunedOf(cache), fault)
                            ELSE saved
            /\ last' = [Call("flushCache") EXCEPT
                            !.status = outcome(fault),
                            !.loaded = memoryCache.isNull,
                            !.wrote = saves \/ prunedCount > 0,
                            !.ranPrune = fault = "none",
                            !.prunedCount = IF fault = "none" THEN prunedCount ELSE 0]
       ELSE /\ flushCounter' = flushCounter + 1
            /\ cacheFile' = saved
            /\ last' = [Call("flushCache") EXCEPT !.wrote = saves]
            /\ UNCHANGED memoryCache
    /\ UNCHANGED <<stats, touched, puts>>
    /\ UNCHANGED <<trashVars, sessionVars>>

clearCache(fault) ==
    /\ memoryCache' = EmptyCache
    /\ cacheFile' = writeCacheFile(cacheFile, EmptyCache, fault)
    /\ last' = [Call("clearCache") EXCEPT !.status = outcome(fault), !.wrote = TRUE]
    /\ UNCHANGED <<stats, flushCounter, flushCalls, touched, puts>>
    /\ UNCHANGED <<trashVars, sessionVars>>

\* ------------------------------------------------- the cache, step by step
\* the callback of a scan batch as the event loop runs it: a task is the
\* callback for one file, heap holds the cache objects loadCache has parsed
\* and memoryRef is the one memoryCache refers to; memoryCache is kept as
\* the value of that object.
\* getCached(f.filePath) is called: loadCache returns memoryCache when it is
\* set, and awaits readFile(CACHE_FILE) when it is not
GetCachedBegin(t, filePath) ==
    /\ tasks[t].pc = "idle"
    /\ stats[filePath] # NoStat
    /\ \A u \in Tasks : tasks[u].pc # "idle" => tasks[u].filePath # filePath
    /\ tasks' = [tasks EXCEPT ![t] =
           IF memoryRef = 0
           THEN [pc |-> "reading", filePath |-> filePath]
           ELSE IF getCachedResult(heap[memoryRef].sessions[filePath],
                                   stats[filePath], FALSE) # NoData
           THEN [pc |-> "done", filePath |-> filePath, stored |-> FALSE]
           ELSE [pc |-> "scanning", filePath |-> filePath]]
    /\ last' = [Call("getCachedBegin") EXCEPT !.path = filePath]
    /\ UNCHANGED <<trashVars, cacheVars, heap, memoryRef>>
    /\ UNCHANGED <<summary, metadata, scanVars, inputVars>>

\* readFile resolves: memoryCache = parsed, a new object, and getCached
\* looks the file up in it
LoadDone(t) ==
    LET parsed == loadCache(NullCache, cacheFile)
        filePath == tasks[t].filePath
    IN
    /\ tasks[t].pc = "reading"
    /\ heap' = Append(heap, parsed)
    /\ memoryRef' = Len(heap) + 1
    /\ memoryCache' = parsed
    /\ tasks' = [tasks EXCEPT ![t] =
           IF getCachedResult(parsed.sessions[filePath], stats[filePath], FALSE) # NoData
           THEN [pc |-> "done", filePath |-> filePath, stored |-> FALSE]
           ELSE [pc |-> "scanning", filePath |-> filePath]]
    /\ last' = [Call("loadCache") EXCEPT !.path = filePath, !.loaded = TRUE]
    /\ UNCHANGED <<stats, cacheFile, flushCounter, flushCalls, touched, puts>>
    /\ UNCHANGED <<trashVars, summary, metadata, scanVars, inputVars>>

\* the scan has resolved and setCached is called: const cache = await
\* loadCache(), which is memoryCache as it is now; then stat is awaited
SetCachedBegin(t) ==
    /\ tasks[t].pc = "scanning"
    /\ tasks' = [tasks EXCEPT ![t] =
           [pc |-> "stat", filePath |-> tasks[t].filePath, cache |-> memoryRef]]
    /\ last' = [Call("setCachedBegin") EXCEPT !.path = tasks[t].filePath]
    /\ UNCHANGED <<trashVars, cacheVars, heap, memoryRef>>
    /\ UNCHANGED <<summary, metadata, scanVars, inputVars>>

\* stat resolves: cache.sessions[filePath] = {mtime, size, data}, on the
\* object this call got from loadCache
SetCachedStore(t, data) ==
    LET filePath == tasks[t].filePath
        cache == tasks[t].cache
        fileInfo == stats[filePath]
        stored == [heap[cache] EXCEPT !.sessions[filePath] =
                      [mtime |-> fileInfo.mtimeMs, size |-> fileInfo.size, data |-> data]]
    IN
    /\ tasks[t].pc = "stat"
    /\ heap' = [heap EXCEPT ![cache] = stored]
    /\ memoryCache' = IF cache = memoryRef THEN stored ELSE memoryCache
    /\ tasks' = [tasks EXCEPT ![t] =
           [pc |-> "done", filePath |-> filePath, stored |-> TRUE]]
    /\ last' = [Call("setCached") EXCEPT !.path = filePath, !.data = data]
    /\ UNCHANGED <<stats, cacheFile, flushCounter, flushCalls, touched, puts, memoryRef>>
    /\ UNCHANGED <<trashVars, summary, metadata, scanVars, inputVars>>

\* Promise.all has resolved: every callback of the batch has returned
BatchDone == \A t \in Tasks : tasks[t].pc \in {"idle", "done"}

\* -------------------------------------------------------------- classifier
\* comparisons of JavaScript: with undefined (or NaN) on the left all are false
lt(a, b) == a # undefined /\ a < b

le(a, b) == a # undefined /\ a <= b

gt(a, b) == a # undefined /\ a > b

ge(a, b) == a # undefined /\ a >= b

\* a + b: NaN when either is undefined, and NaN compares like undefined
plus(a, b) == IF a = undefined \/ b = undefined THEN undefined ELSE a + b

\* x || 0
orZero(x) == IF x = undefined THEN 0 ELSE x

\* String.prototype.trim
RECURSIVE trimStart(_)
trimStart(text) ==
    IF text # << >> /\ Head(text) = " " THEN trimStart(Tail(text)) ELSE text

RECURSIVE trimEnd(_)
trimEnd(text) ==
    IF text # << >> /\ text[Len(text)] = " "
    THEN trimEnd(SubSeq(text, 1, Len(text) - 1)) ELSE text

trim(text) == trimEnd(trimStart(text))

\* the words of JUNK_PATTERNS, which match the whole text whatever its case
JunkWords ==
    {"init", "/init", "exit", "ls", "pwd", "q", "quit", "help", "h", "/help",
     "/h", "--continue", "--resume", ".", "test"}

toLowerCase(word) == IF word = "Test" THEN "test" ELSE word

isJunkMessage(text) ==
    IF text = << >> THEN FALSE
    ELSE LET trimmed == trim(text)
         IN \/ trimmed = << >>
            \/ Len(trimmed) = 1 /\ toLowerCase(trimmed[1]) \in JunkWords

isTier1(session) ==
    \/ session.category = "empty"
    \/ session.category = "hook-only"
    \/ session.category = "snapshot-only"
    \/ lt(session.fileSizeBytes, 1024) /\ session.userMessageCount = 0
    \/ le(session.totalRecordCount, 2) /\ session.userMessageCount = 0

\* the reason isTier1 pushes: that of the first test that holds
tier1Reasons(session) ==
    IF session.category = "empty" THEN <<"empty session (no records)">>
    ELSE IF session.category = "hook-only"
    THEN <<"hook-only (system events, no conversation)">>
    ELSE IF session.category = "snapshot-only"
    THEN <<"snapshot-only (file history, no conversation)">>
    ELSE IF lt(session.fileSizeBytes, 1024) /\ session.userMessageCount = 0
    THEN <<"tiny file with no user messages">>
    ELSE IF le(session.totalRecordCount, 2) /\ session.userMessageCount = 0
    THEN <<"minimal records, no user messages">>
    ELSE << >>

isTier4(session) ==
    \/ orZero(session.turnCount) >= 4
    \/ orZero(session.totalToolCalls) >= 3
    \/ orZero(session.thinkingBlocks) >= 2
    \/ orZero(session.uniqueFilesCount) >= 2
    \/ gt(session.durationMs, 300000)
    \/ ge(session.userMessageCount, 3) /\ ge(session.assistantMessageCount, 3)
    \/ gt(session.fileSizeBytes, 50000) /\ ge(session.userMessageCount, 2)

\* the five tests of isTier2, in order
tier2Tests(session) ==
    << /\ session.userMessageCount = 1
       /\ le(session.assistantMessageCount, 1)
       /\ lt(session.durationMs, 60000),
       isJunkMessage(session.title),
       gt(session.userMessageCount, 0) /\ session.assistantMessageCount = 0,
       /\ orZero(session.totalToolCalls) = 0
       /\ le(session.userMessageCount, 2)
       /\ lt(session.durationMs, 120000),
       /\ lt(session.fileSizeBytes, 4096)
       /\ le(plus(session.userMessageCount, session.assistantMessageCount), 2) >>

tier2Texts ==
    <<"single brief exchange (< 1 min)", "junk pattern",
      "no assistant response (abandoned)", "short session with no tool usage",
      "tiny session (< 4KB, <= 2 messages)">>

isTier2(session) == \E k \in 1..5 : tier2Tests(session)[k]

\* the reason isTier2 pushes: that of the first test that holds
tier2Reasons(session) ==
    IF isTier2(session)
    THEN <<tier2Texts[CHOOSE k \in 1..5 :
                          /\ tier2Tests(session)[k]
                          /\ \A j \in 1..(k - 1) : ~tier2Tests(session)[j]]>>
    ELSE << >>

\* a computeReviewReasons without the default reason
computeReviewReasonsNoDefault(session, reasons) ==
    LET r1 == IF le(session.userMessageCount, 2)
              THEN Append(reasons, "few user messages") ELSE reasons
        r2 == IF lt(session.durationMs, 120000) /\ gt(session.durationMs, 0)
              THEN Append(r1, "short duration") ELSE r1
    IN IF session.assistantMessageCount = 0
       THEN Append(r2, "no assistant response") ELSE r2

computeReviewReasons(session, reasons) ==
    LET r1 == IF le(session.userMessageCount, 2)
              THEN Append(reasons, "few user messages") ELSE reasons
        r2 == IF lt(session.durationMs, 120000) /\ gt(session.durationMs, 0)
              THEN Append(r1, "short duration") ELSE r1
        r3 == IF session.assistantMessageCount = 0
              THEN Append(r2, "no assistant response") ELSE r2
    IN IF Len(r3) = 0 THEN Append(r3, "needs manual review") ELSE r3

\* an applyTier that records the effective tier as the computed one
applyTierNoAudit(session, tier, reasons) ==
    LET effectiveTier == IF session.tierOverride # null /\ session.tierOverride # undefined
                         THEN session.tierOverride ELSE tier
    IN [session EXCEPT !.tier = effectiveTier,
                       !.tierLabel = labelOf(effectiveTier),
                       !.autoTier = effectiveTier,
                       !.junkScore = scoreOf(effectiveTier),
                       !.junkReasons = reasons]

\* an applyTier that adds the reasons to those the summary carries
applyTierAppend(session, tier, reasons) ==
    LET effectiveTier == IF session.tierOverride # null /\ session.tierOverride # undefined
                         THEN session.tierOverride ELSE tier
    IN [session EXCEPT !.tier = effectiveTier,
                       !.tierLabel = labelOf(effectiveTier),
                       !.autoTier = tier,
                       !.junkScore = scoreOf(effectiveTier),
                       !.junkReasons = session.junkReasons \o reasons]

applyTier(session, tier, reasons) ==
    LET effectiveTier == IF session.tierOverride # null /\ session.tierOverride # undefined
                         THEN session.tierOverride ELSE tier
    IN [session EXCEPT !.tier = effectiveTier,
                       !.tierLabel = labelOf(effectiveTier),
                       !.autoTier = tier,
                       !.junkScore = scoreOf(effectiveTier),
                       !.junkReasons = reasons]

\* a classify that tests KEEP before AUTO-DELETE
classifyKeepFirst(session) ==
    IF isTier4(session) THEN applyTier(session, TIER_KEEP, << >>)
    ELSE IF isTier1(session)
    THEN applyTier(session, TIER_AUTO_DELETE, tier1Reasons(session))
    ELSE IF isTier2(session)
    THEN applyTier(session, TIER_SUGGESTED, tier2Reasons(session))
    ELSE applyTier(session, TIER_REVIEW, computeReviewReasons(session, << >>))

\* a classify that tests the tiers in numeric order
classifyInOrder(session) ==
    IF isTier1(session)
    THEN applyTier(session, TIER_AUTO_DELETE, tier1Reasons(session))
    ELSE IF isTier2(session)
    THEN applyTier(session, TIER_SUGGESTED, tier2Reasons(session))
    ELSE IF isTier4(session) THEN applyTier(session, TIER_KEEP, << >>)
    ELSE applyTier(session, TIER_REVIEW, computeReviewReasons(session, << >>))

\* a classify that leaves the reasons of a KEEP summary as they were
classifyStaleReasons(session) ==
    IF isTier1(session)
    THEN applyTier(session, TIER_AUTO_DELETE, tier1Reasons(session))
    ELSE IF isTier4(session) THEN applyTier(session, TIER_KEEP, session.junkReasons)
    ELSE IF isTier2(session)
    THEN applyTier(session, TIER_SUGGESTED, tier2Reasons(session))
    ELSE applyTier(session, TIER_REVIEW, computeReviewReasons(session, << >>))

classify(session) ==
    IF isTier1(session)
    THEN applyTier(session, TIER_AUTO_DELETE, tier1Reasons(session))
    ELSE IF isTier4(session) THEN applyTier(session, TIER_KEEP, << >>)
    ELSE IF isTier2(session)
    THEN applyTier(session, TIER_SUGGESTED, tier2Reasons(session))
    ELSE applyTier(session, TIER_REVIEW, computeReviewReasons(session, << >>))

\* a junkLabel whose thresholds are exclusive
junkLabelExclusive(score) ==
    IF score > 7 THEN "junk" ELSE IF score > 4 THEN "maybe" ELSE "real"

\* junkLabel(score), the score in tenths
junkLabel(score) ==
    IF score >= 6 THEN "junk" ELSE IF score >= 3 THEN "maybe" ELSE "real"

\* classify(session): the summary is changed in place; the caller shows the
\* label of its score
Classify ==
    /\ summary' = classify(summary)
    /\ last' = [Call("classify") EXCEPT
                    !.session = summary,
                    !.junkLabel = junkLabel(classify(summary).junkScore)]
    /\ UNCHANGED <<trashVars, cacheVars, metadata, scanVars, inputVars, asyncVars>>

\* --------------------------------------------------------- session loading
\* findSessionFiles: the session files of the scanned project
CacheSessions == {SessionFile("pA", id) : id \in Ids}

\* parseRecords of the model's session file, two user and two assistant
\* records in turn: the summary of a fast scan, and with the fields of
\* analyzeRecords when analyze is set
scanned(sessionFile, fileInfo, analyze) ==
    [id |-> sessionFile.id, analyzed |-> analyze,
     category |-> "conversation", fileSizeBytes |-> fileInfo.size,
     userMessageCount |-> 2, assistantMessageCount |-> 2,
     totalRecordCount |-> 4, durationMs |-> 180000,
     totalToolCalls |-> 0, turnCount |-> IF analyze THEN 4 ELSE 0,
     thinkingBlocks |-> 0, uniqueFilesCount |-> 0, title |-> TitleFix,
     tierOverride |-> undefined,
     tier |-> 0, tierLabel |-> "", autoTier |-> 0, junkScore |-> 0,
     junkReasons |-> << >>]

\* mergeMetadata, for one session: sm.tierOverride is copied when it is set
mergeMetadata(session, meta) ==
    IF meta[session.id] # null
    THEN [session EXCEPT !.tierOverride = meta[session.id]]
    ELSE session

\* setTierOverride(id, tier), as the web server calls it with tier in 1..4
setTierOverride(id, tier) ==
    /\ metadata' = [metadata EXCEPT ![id] = tier]
    /\ last' = [Call("setTierOverride") EXCEPT !.arg = id]
    /\ UNCHANGED <<trashVars, cacheVars, summary, scanVars, inputVars, asyncVars>>

\* body.tier of a POST /api/sessions/<id>/tier, in tenths: absent or 0, 1,
\* 2.5, 4 and 5
TierBodies == {0, 10, 25, 40, 50}

\* !body.tier || body.tier < 1 || body.tier > 4
tierRejected(tier) == tier = 0 \/ tier < 10 \/ tier > 40

\* the number the body's tier parses to
numberOfTenths(tier) == IF tier % 10 = 0 THEN tier \div 10 ELSE NonInteger + tier

\* the route POST /api/sessions/<id>/tier: the tier is validated and handed
\* to setTierOverride
postTier(id, tier) ==
    /\ IF tierRejected(tier)
       THEN /\ last' = [Call("postTier") EXCEPT !.arg = id, !.status = "400"]
            /\ UNCHANGED metadata
       ELSE /\ metadata' = [metadata EXCEPT ![id] = numberOfTenths(tier)]
            /\ last' = [Call("postTier") EXCEPT !.arg = id]
    /\ UNCHANGED <<trashVars, cacheVars, summary, scanVars, inputVars, asyncVars>>

\* loadSessions({analyze}) / getSessions: each session file is taken from the
\* cache or scanned and put there, the cache is flushed, and then the
\* summaries, which are the objects the cache holds, are classified and given
\* their metadata
loadSessions(analyze) ==
    LET cache == loadCache(memoryCache, cacheFile)
        found == {f \in CacheSessions : stats[f.filePath] # NoStat}
        hit(f) == getCachedResult(cache.sessions[f.filePath], stats[f.filePath], analyze)
        summaryOf(f) == IF hit(f) # NoData THEN hit(f)
                        ELSE scanned(f, stats[f.filePath], analyze)
        put == [cache EXCEPT !.sessions = [p \in CachePaths |->
                   IF \E f \in found : f.filePath = p /\ hit(f) = NoData
                   THEN LET f == CHOOSE f \in found : f.filePath = p
                        IN [mtime |-> stats[p].mtimeMs, size |-> stats[p].size,
                            data |-> summaryOf(f)]
                   ELSE cache.sessions[p]]]
        prunes == (flushCounter + 1) % PRUNE_INTERVAL = 0
        flushed == IF prunes THEN prunedOf(put) ELSE put
        result(f) == mergeMetadata(classify(summaryOf(f)), metadata)
    IN
    /\ flushCounter < MaxFlushes
    /\ flushCounter' = flushCounter + 1
    /\ flushCalls' = flushCalls + 1
    /\ cacheFile' = writeCacheFile(cacheFile, flushed, "none")
    /\ memoryCache' = [flushed EXCEPT !.sessions = [p \in CachePaths |->
                           IF \E f \in found : f.filePath = p
                           THEN LET f == CHOOSE f \in found : f.filePath = p
                                IN [flushed.sessions[p] EXCEPT !.data = result(f)]
                           ELSE flushed.sessions[p]]]
    /\ last' = [Call("loadSessions") EXCEPT
                    !.analyze = analyze,
                    !.loaded = memoryCache.isNull,
                    !.sessions = [f \in found |-> result(f)]]
    /\ UNCHANGED <<stats, touched, puts>>
    /\ UNCHANGED <<trashVars, sessionVars>>

\* ------------------------------------------------------------ the scanner
\* a line of a session file: its text is the whole value, so two equal
\* values are two lines of the same text; json is what JSON.parse makes of
\* it, NoJson where it throws
NoJson == [type |-> "none", dataType |-> "none", timestamp |-> 0]

Line(text, type, dataType, timestamp) ==
    [text |-> text, json |-> [type |-> type, dataType |-> dataType, timestamp |-> timestamp]]

\* the lines the chat tool writes, a line cut short and an empty line;
\* timestamp 0 is a record without one
Lines ==
    { Line("user", "user", "none", 1),
      Line("assistant", "assistant", "none", 2),
      Line("hook", "progress", "hook_progress", 3),
      Line("agent", "progress", "agent_progress", 0),
      Line("snapshot", "file-history-snapshot", "none", 0),
      Line("system", "system", "hook_progress", 0),
      [text |-> "cut", json |-> NoJson],
      [text |-> "", json |-> NoJson] }

\* lines.slice(from): the lines after the first from
RECURSIVE dropLines(_, _)
dropLines(lines, from) ==
    IF from = 0 \/ lines = << >> THEN lines ELSE dropLines(Tail(lines), from - 1)

\* readHeadTail: the first head lines, then of the last tail lines after
\* them those whose text is not the text of a head line
readHeadTail(lines, head, tail) ==
    LET n == Len(lines)
        headLines == SubSeq(lines, 1, IF n < head THEN n ELSE head)
        rest == dropLines(lines, head)
        tailBuffer == dropLines(rest, IF Len(rest) > tail THEN Len(rest) - tail ELSE 0)
        headSet == {headLines[k] : k \in 1..Len(headLines)}
    IN headLines \o SelectSeq(tailBuffer, LAMBDA tl : tl \notin headSet)

\* readAllLines: content.split('\n').filter(l => l.trim())
readAllLines(lines) == SelectSeq(lines, LAMBDA l : l.text # "")

\* try { records.push(JSON.parse(line)) } catch { skip }
parseLines(lines) ==
    LET parsed == SelectSeq(lines, LAMBDA l : l.json # NoJson)
    IN [k \in 1..Len(parsed) |-> parsed[k].json]

\* the category when a hook event alone makes hook-only
categoryOfHookFirst(hasUserMessage, hasAssistantMessage, hasProgress, hasHookProgress) ==
    IF ~hasUserMessage /\ ~hasAssistantMessage /\ ~hasProgress THEN "empty"
    ELSE IF hasHookProgress /\ ~hasUserMessage THEN "hook-only"
    ELSE IF hasUserMessage \/ hasAssistantMessage THEN "conversation"
    ELSE "snapshot-only"

\* the if / else-if chain that ends parseRecords' loop
categoryOf(hasUserMessage, hasAssistantMessage, hasProgress, hasHookProgress) ==
    IF ~hasUserMessage /\ ~hasAssistantMessage /\ ~hasProgress THEN "empty"
    ELSE IF hasUserMessage \/ hasAssistantMessage THEN "conversation"
    ELSE IF hasHookProgress /\ ~hasUserMessage THEN "hook-only"
    ELSE "snapshot-only"

\* the counters and flags of parseRecords after the records up to the n-th
RECURSIVE foldRecords(_, _)
foldRecords(records, n) ==
    IF n = 0
    THEN [userMessageCount |-> 0, assistantMessageCount |-> 0,
          hasUserMessage |-> FALSE, hasAssistantMessage |-> FALSE,
          hasProgress |-> FALSE, hasHookProgress |-> FALSE, timestamps |-> {}]
    ELSE LET acc == foldRecords(records, n - 1)
             rec == records[n]
             seen == [acc EXCEPT !.timestamps =
                         IF rec.timestamp # 0 THEN @ \cup {rec.timestamp} ELSE @]
         IN IF rec.type = "user"
            THEN [seen EXCEPT !.userMessageCount = @ + 1, !.hasUserMessage = TRUE]
            ELSE IF rec.type = "assistant"
            THEN [seen EXCEPT !.assistantMessageCount = @ + 1, !.hasAssistantMessage = TRUE]
            ELSE IF rec.type = "progress"
            THEN [seen EXCEPT !.hasProgress = TRUE,
                              !.hasHookProgress = @ \/ rec.dataType = "hook_progress"]
            ELSE seen

\* the fields of the summary parseRecords derives from the records
parseRecords(records) ==
    LET acc == foldRecords(records, Len(records))
        first == IF acc.timestamps = {} THEN null
                 ELSE CHOOSE t \in acc.timestamps : \A u \in acc.timestamps : t <= u
        latest == IF acc.timestamps = {} THEN null
                  ELSE CHOOSE t \in acc.timestamps : \A u \in acc.timestamps : u <= t
    IN [userMessageCount |-> acc.userMessageCount,
        assistantMessageCount |-> acc.assistantMessageCount,
        totalRecordCount |-> Len(records),
        firstTimestamp |-> first,
        lastTimestamp |-> latest,
        durationMs |-> IF acc.timestamps = {} THEN 0 ELSE latest - first,
        category |-> categoryOf(acc.hasUserMessage, acc.hasAssistantMessage,
                                acc.hasProgress, acc.hasHookProgress)]

\* fastScan(sessionFile) of the file whose lines are fileLines
fastScan ==
    /\ summary' = parseRecords(parseLines(readHeadTail(fileLines, headCount, tailCount)))
    /\ last' = Call("fastScan")
    /\ UNCHANGED <<trashVars, cacheVars, metadata, scanVars, inputVars, asyncVars>>

\* fullScan(sessionFile) of the file whose lines are fileLines
fullScan ==
    /\ summary' = parseRecords(parseLines(readAllLines(fileLines)))
    /\ last' = Call("fullScan")
    /\ UNCHANGED <<trashVars, cacheVars, metadata, scanVars, inputVars, asyncVars>>

\* ----------------------------------------------------------- the analyzer
\* words of user messages and the number of characters of each
Words == {"je", "que", "el", "der", "refactoring"}

wordLength(word) ==
    CASE word = "je" -> 2
      [] word = "que" -> 3
      [] word = "el" -> 2
      [] word = "der" -> 3
      [] word = "refactoring" -> 11

\* the words of Words that each pattern of LANG_HINTS matches
LANG_HINTS == [fr |-> {"je", "que"}, es |-> {"el", "que"}, de |-> {"der"}]

\* Object.entries(LANG_HINTS): the languages in the order of the literal
LangOrder == <<"fr", "es", "de">>

\* text.length of the words joined by single spaces
RECURSIVE textLength(_)
textLength(text) ==
    IF text = << >> THEN 0
    ELSE IF Len(text) = 1 THEN wordLength(text[1])
    ELSE wordLength(Head(text)) + 1 + textLength(Tail(text))

\* text.match(new RegExp(regex.source, 'gi')): the number of matches
matchCount(text, lang) ==
    Cardinality({k \in 1..Len(text) : text[k] \in LANG_HINTS[lang]})

\* the loop of detectLanguage after the first n languages
RECURSIVE bestAfter(_, _)
bestAfter(text, n) ==
    IF n = 0 THEN [bestLang |-> "en", bestCount |-> 0]
    ELSE LET best == bestAfter(text, n - 1)
             count == matchCount(text, LangOrder[n])
         IN IF count > best.bestCount /\ count >= 3
            THEN [bestLang |-> LangOrder[n], bestCount |-> count]
            ELSE best

detectLanguage(text) ==
    IF text = << >> \/ textLength(text) < 20 THEN "en"
    ELSE bestAfter(text, Len(LangOrder)).bestLang

\* analyzeRecords of a session whose user text is userText: the language
analyzeRecords ==
    /\ summary' = [language |-> detectLanguage(userText)]
    /\ last' = Call("analyzeRecords")
    /\ UNCHANGED <<trashVars, cacheVars, metadata, scanVars, inputVars, asyncVars>>

\* ------------------------------------------------------------- the scan
\* a slice that takes every file from i on
batchOfRest(i, total) == {k \in 1..total : i < k}

\* files.slice(i, i + batchSize), the files numbered from 1
batchOf(i, total) == {k \in 1..total : i < k /\ k <= i + batchSize}

\* the scans that resolved with a summary, in the order of the files
RECURSIVE filterBoolean(_, _, _)
filterBoolean(settled, from, to) ==
    IF from > to THEN << >>
    ELSE IF settled[from] = "summary"
    THEN <<from>> \o filterBoolean(settled, from + 1, to)
    ELSE filterBoolean(settled, from + 1, to)

\* results.sort by lastTimestamp, the latest first: file k was last written
\* at time k
RECURSIVE sortByLastTimestamp(_)
sortByLastTimestamp(results) ==
    IF results = << >> THEN << >>
    ELSE Append(sortByLastTimestamp(Tail(results)), Head(results))

\* scanAll is called: findSessionFiles finds total files
scanAll(total) ==
    /\ scanPc = "idle"
    /\ scanTotal' = total
    /\ scanI' = 0
    /\ inflight' = {}
    /\ outcomes' = << >>
    /\ scanResults' = << >>
    /\ scanPc' = "loop"
    /\ last' = [Call("scanAll") EXCEPT !.remaining = total]
    /\ UNCHANGED <<trashVars, cacheVars, summary, metadata, inputVars, asyncVars>>

\* batch.map(f => scanFn(f).catch(() => null)): the scans of the batch start
StartBatch ==
    /\ scanPc = "loop"
    /\ scanI < scanTotal
    /\ inflight' = batchOf(scanI, scanTotal)
    /\ outcomes' = [k \in DOMAIN outcomes \cup batchOf(scanI, scanTotal) |->
                        IF k \in batchOf(scanI, scanTotal) THEN "pending"
                        ELSE outcomes[k]]
    /\ scanPc' = "await"
    /\ last' = Call("startBatch")
    /\ UNCHANGED <<scanTotal, scanI, scanResults>>
    /\ UNCHANGED <<trashVars, cacheVars, summary, metadata, inputVars, asyncVars>>

\* the scan of one file resolves with its summary, or rejects and the catch
\* makes it null
ScanSettles(k, result) ==
    /\ k \in inflight
    /\ inflight' = inflight \ {k}
    /\ outcomes' = [outcomes EXCEPT ![k] = result]
    /\ last' = [Call("scan") EXCEPT !.status = result]
    /\ UNCHANGED <<scanTotal, scanI, scanResults, scanPc>>
    /\ UNCHANGED <<trashVars, cacheVars, summary, metadata, inputVars, asyncVars>>

\* Promise.all resolves: results.push(...batchResults.filter(Boolean)), i += batchSize
EndBatch ==
    /\ scanPc = "await"
    /\ inflight = {}
    /\ scanResults' = scanResults \o filterBoolean(outcomes, scanI + 1,
                                         IF scanI + batchSize < scanTotal
                                         THEN scanI + batchSize ELSE scanTotal)
    /\ scanI' = scanI + batchSize
    /\ scanPc' = "loop"
    /\ last' = Call("endBatch")
    /\ UNCHANGED <<scanTotal, inflight, outcomes>>
    /\ UNCHANGED <<trashVars, cacheVars, summary, metadata, inputVars, asyncVars>>

\* the loop is over: the results are sorted and returned
ScanReturn ==
    /\ scanPc = "loop"
    /\ scanI >= scanTotal
    /\ scanResults' = sortByLastTimestamp(scanResults)
    /\ scanPc' = "done"
    /\ last' = [Call("scanReturn") EXCEPT !.items = sortByLastTimestamp(scanResults)]
    /\ UNCHANGED <<scanTotal, scanI, inflight, outcomes>>
    /\ UNCHANGED <<trashVars, cacheVars, summary, metadata, inputVars, asyncVars>>

\* -------------------------------------------------------------------- Next
\* the trash subsystem: every operation of cleanup.js, the chat tool and the
\* clock
Next ==
    \/ \E s \in Sessions : WriteSession(s)
    \/ \E s \in Sessions : MakeCompanion(s)
    \/ Tick
    \/ \E s \in Sessions, r \in Reasons, f \in WriteFaults : trashSession(s, r, f)
    \/ \E id \in ArgIds, f \in WriteFaults : restoreSession(id, f)
    \/ \E id \in ArgIds, f \in WriteFaults : deleteFromTrash(id, f)
    \/ \E n \in Days, f \in WriteFaults : emptyTrash(n, f)
    \/ listTrash

Spec == Init /\ [][Next]_vars

\* the move, restore and purge operations with the clock standing still
NextTrash ==
    \/ \E s \in Sessions : WriteSession(s)
    \/ \E s \in Sessions : MakeCompanion(s)
    \/ \E s \in Sessions, r \in Reasons, f \in WriteFaults : trashSession(s, r, f)
    \/ \E id \in ArgIds, f \in WriteFaults : restoreSession(id, f)
    \/ \E id \in ArgIds, f \in WriteFaults : deleteFromTrash(id, f)

SpecTrash == Init /\ [][NextTrash]_vars

\* ageing: the clock runs and emptyTrash is called, its journal write failing
\* or not; the other operations are called with full ids and do not fail
NextAge ==
    \/ \E s \in Sessions : WriteSession(s)
    \/ Tick
    \/ \E s \in Sessions, r \in Reasons : trashSession(s, r, "none")
    \/ \E id \in Ids : restoreSession(id, "none")
    \/ \E id \in Ids : deleteFromTrash(id, "none")
    \/ \E n \in Days, f \in WriteFaults : emptyTrash(n, f)

SpecAge == Init /\ [][NextAge]_vars

\* the journal read where it is missing or damaged: moves whose journal write
\* fails or not, restores, and listings
NextJournal ==
    \/ \E s \in Sessions : WriteSession(s)
    \/ \E s \in Sessions, r \in Reasons, f \in WriteFaults : trashSession(s, r, f)
    \/ \E id \in ArgIds : restoreSession(id, "none")
    \/ listTrash

SpecJournal == Init /\ [][NextJournal]_vars

\* the scan cache of one process: files change, summaries are put and got,
\* stale entries pruned
NextCache ==
    \/ \E p \in CachePaths, fileInfo \in Stats : TouchFile(p, fileInfo)
    \/ \E p \in CachePaths : RemoveFile(p)
    \/ \E p \in CachePaths, requireAnalyzed \in BOOLEAN : getCached(p, requireAnalyzed)
    \/ \E p \in CachePaths, data \in Summaries : setCached(p, data)
    \/ pruneCache("none")

SpecCache == Init /\ [][NextCache]_vars

\* the cache and its file across processes: summaries are put and got,
\* files removed, the cache flushed, pruned and cleared with writes that
\* fail or not, and the process restarted
NextCacheFile ==
    \/ \E p \in CachePaths : RemoveFile(p)
    \/ \E p \in CachePaths : getCached(p, FALSE)
    \/ \E p \in CachePaths, data \in Summaries : setCached(p, data)
    \/ \E f \in WriteFaults : pruneCache(f)
    \/ \E f \in WriteFaults : flushCalls < MaxFlushes /\ flushCache(f)
    \/ \E f \in WriteFaults : clearCache(f)
    \/ Restart

SpecCacheFile == Init /\ [][NextCacheFile]_vars

\* the cadence of the prune: one process flushes up to MaxCalls times, with
\* writes that fail or not, while summaries are put and files removed
NextFlush ==
    \/ \E p \in CachePaths : RemoveFile(p)
    \/ \E p \in CachePaths, data \in Summaries : setCached(p, data)
    \/ \E f \in WriteFaults : flushCalls < MaxCalls /\ flushCache(f)

SpecFlush == Init /\ [][NextFlush]_vars

\* sessions with companion directories: the chat tool has written some of
\* the session files, some of them with a companion directory, before the
\* first call; they are moved to the trash and back
InitCompanion ==
    /\ \E present \in SUBSET Sessions :
           \E withDir \in SUBSET present :
               /\ files = [p \in FilePaths |->
                              IF \E s \in present : s.filePath = p
                              THEN [at |-> p, n |-> 1] ELSE NoFile]
               /\ dirs = [p \in DirPaths |->
                             \E s \in withDir : replaceJsonl(s.filePath) = p]
    /\ manifestFile = [kind |-> "missing", items |-> <<>>]
    /\ now = 0
    /\ written = 0
    /\ dirsMade = 0
    /\ last = NoCall
    /\ stats = [p \in CachePaths |-> [mtimeMs |-> 1, size |-> 100]]
    /\ memoryCache = NullCache
    /\ cacheFile = [kind |-> "missing", version |-> 0, sessions |-> NoSessions]
    /\ flushCounter = 0
    /\ flushCalls = 0
    /\ touched = 0
    /\ puts = 0
    /\ summary = makeSession
    /\ metadata = [id \in Ids |-> null]
    /\ ScanIdle
    /\ NoInput
    /\ NoTasks

NextCompanion ==
    \/ \E s \in Sessions, r \in Reasons : trashSession(s, r, "none")
    \/ \E id \in Ids : restoreSession(id, "none")

SpecCompanion == InitCompanion /\ [][NextCompanion]_vars

\* the web server: sessions are loaded, overrides to SUGGESTED and to KEEP
\* recorded, and the server is restarted
NextLoad ==
    \/ \E analyze \in BOOLEAN : loadSessions(analyze)
    \/ \E id \in Ids, tier \in {TIER_SUGGESTED, TIER_KEEP} : setTierOverride(id, tier)
    \/ Restart

SpecLoad == Init /\ [][NextLoad]_vars

\* one scan of up to MaxScan files, the scans of a batch settling in any
\* order, each with a summary or a failure
NextScan ==
    \/ \E total \in 0..MaxScan : scanAll(total)
    \/ StartBatch
    \/ \E k \in 1..MaxScan, result \in {"summary", "null"} : ScanSettles(k, result)
    \/ EndBatch
    \/ ScanReturn

SpecScan == Init /\ [][NextScan]_vars

\* the scanner: a session file of up to MaxLines lines is scanned in fast
\* and in full mode
InitParse ==
    /\ files = [p \in FilePaths |-> NoFile]
    /\ dirs = [p \in DirPaths |-> NoDir]
    /\ manifestFile = [kind |-> "missing", items |-> <<>>]
    /\ now = 0
    /\ written = 0
    /\ dirsMade = 0
    /\ last = NoCall
    /\ stats = [p \in CachePaths |-> [mtimeMs |-> 1, size |-> 100]]
    /\ memoryCache = NullCache
    /\ cacheFile = [kind |-> "missing", version |-> 0, sessions |-> NoSessions]
    /\ flushCounter = 0
    /\ flushCalls = 0
    /\ touched = 0
    /\ puts = 0
    /\ summary = makeSession
    /\ metadata = [id \in Ids |-> null]
    /\ ScanIdle
    /\ \E n \in 0..MaxLines : fileLines \in [1..n -> Lines]
    /\ userText = << >>
    /\ NoTasks

NextParse ==
    \/ fastScan
    \/ fullScan

SpecParse == InitParse /\ [][NextParse]_vars

\* the analyzer's language guess over the user texts of up to MaxWords words
InitLanguage ==
    /\ files = [p \in FilePaths |-> NoFile]
    /\ dirs = [p \in DirPaths |-> NoDir]
    /\ manifestFile = [kind |-> "missing", items |-> <<>>]
    /\ now = 0
    /\ written = 0
    /\ dirsMade = 0
    /\ last = NoCall
    /\ stats = [p \in CachePaths |-> [mtimeMs |-> 1, size |-> 100]]
    /\ memoryCache = NullCache
    /\ cacheFile = [kind |-> "missing", version |-> 0, sessions |-> NoSessions]
    /\ flushCounter = 0
    /\ flushCalls = 0
    /\ touched = 0
    /\ puts = 0
    /\ summary = makeSession
    /\ metadata = [id \in Ids |-> null]
    /\ ScanIdle
    /\ fileLines = << >>
    /\ \E n \in 0..MaxWords : userText \in [1..n -> Words]
    /\ NoTasks

NextLanguage == analyzeRecords

SpecLanguage == InitLanguage /\ [][NextLanguage]_vars

\* loadSessions in a new process: the callbacks of one batch run
\* interleaved, and the cache is flushed when all have returned
NextBatch ==
    \/ \E t \in Tasks, p \in CachePaths : flushCalls = 0 /\ GetCachedBegin(t, p)
    \/ \E t \in Tasks : LoadDone(t)
    \/ \E t \in Tasks : SetCachedBegin(t)
    \/ \E t \in Tasks, data \in Summaries : SetCachedStore(t, data)
    \/ BatchDone /\ flushCalls = 0 /\ flushCache("none")

SpecBatch == Init /\ [][NextBatch]_vars

\* the dashboard's trash requests, handled at the same time
NextRequests ==
    \/ \E s \in Sessions : WriteSession(s)
    \/ \E t \in Tasks, s \in Sessions, r \in Reasons : TrashBegin(t, s, r)
    \/ \E t \in Tasks : TrashLoad(t)
    \/ \E t \in Tasks : TrashSave(t)

SpecRequests == Init /\ [][NextRequests]_vars

\* the dashboard: tier overrides are posted and the sessions loaded
NextOverride ==
    \/ \E id \in Ids, tier \in TierBodies : postTier(id, tier)
    \/ loadSessions(FALSE)

SpecOverride == Init /\ [][NextOverride]_vars

\* the classifier applied to the summaries of a scan
InitClassify ==
    /\ files = [p \in FilePaths |-> NoFile]
    /\ dirs = [p \in DirPaths |-> NoDir]
    /\ manifestFile = [kind |-> "missing", items |-> <<>>]
    /\ now = 0
    /\ written = 0
    /\ dirsMade = 0
    /\ last = NoCall
    /\ stats = [p \in CachePaths |-> [mtimeMs |-> 1, size |-> 100]]
    /\ memoryCache = NullCache
    /\ cacheFile = [kind |-> "missing", version |-> 0, sessions |-> NoSessions]
    /\ flushCounter = 0
    /\ flushCalls = 0
    /\ touched = 0
    /\ puts = 0
    /\ \E base \in Bases, es \in [1..MaxDiff -> Edits], prior \in Priors :
           summary = prior @@ patch(base, es, MaxDiff)
    /\ metadata = [id \in Ids |-> null]
    /\ ScanIdle
    /\ NoInput
    /\ NoTasks

NextClassify == Classify

SpecClassify == InitClassify /\ [][NextClassify]_vars

TypeOK ==
    /\ \A p \in FilePaths : files[p].n \in 0..MaxFiles
    /\ written \in 0..MaxFiles
    /\ dirs \in [DirPaths -> BOOLEAN]
    /\ manifestFile.kind \in {"missing", "corrupt", "ok"}
    /\ Len(manifestFile.items) <= MaxItems

\* ------------------------------------------------------------------ claims
\* the journal as the next call will load it
Journal == loadManifest(manifestFile).items

HasEntry(items, id) == \E i \in 1..Len(items) : items[i].id = id

Faulted(call) == call.status \in {"EACCES", "ENOSPC"}

\* C1: a session whose file is at its original path p is trashed and then
\* restored by its id: the file is back at p with the content it had, nothing
\* is at the trash path and the journal has no entry with that id (a second
\* trash and restore starts from such a state and must end in it again).
C1_RoundTrip ==
    [][(/\ last.op = "trash" /\ last.status = "ok"
        /\ last'.op = "restore" /\ last'.status = "ok"
        /\ last'.arg = last.arg)
       => (/\ files'[last.path] = last.content
           /\ files'[last.rpath] = NoFile
           /\ ~HasEntry(Journal', last.arg))]_vars

\* C2: every journal entry has its own session's file at its trash path and
\* every file in the trash area has a journal entry: an operation that
\* completes from a state where this holds ends in a state where it holds.
EntryHasFile(items, fs) ==
    \A i \in 1..Len(items) :
        /\ fs[items[i].trashPath] # NoFile
        /\ fs[items[i].trashPath].at = resolveOriginalPath(items[i].originalPath)

FileHasEntry(items, fs) ==
    \A t \in TrashPaths :
        fs[t] # NoFile => \E i \in 1..Len(items) : items[i].trashPath = t

JournalIffTrash == EntryHasFile(Journal, files) /\ FileHasEntry(Journal, files)

C2_JournalIffTrash ==
    [][(JournalIffTrash /\ last'.status = "ok") => JournalIffTrash']_vars

\* C3: a trashSession that throws leaves the session file, the companion
\* directory and the journal as they were.
C3_NoPartialTrash ==
    [][(last'.op = "trash" /\ last'.status # "ok")
       => (files' = files /\ dirs' = dirs /\ manifestFile' = manifestFile)]_vars

\* C4: a content that is at its original path or at a journal-recorded trash
\* path for that original path is still at one of the two after a successful
\* trashSession or restoreSession: no move overwrites another file.
Located(c, items, fs) ==
    \/ fs[c.at] = c
    \/ \E i \in 1..Len(items) :
           /\ resolveOriginalPath(items[i].originalPath) = c.at
           /\ fs[items[i].trashPath] = c

C4_NoContentLost ==
    [][(last'.op \in {"trash", "restore"} /\ last'.status = "ok")
       => \A p \in FilePaths :
              (files[p] # NoFile /\ Located(files[p], Journal, files))
              => Located(files[p], Journal', files')]_vars

\* C5: after a successful deleteFromTrash the trashed file is gone and the
\* journal has no entry with the purged id, and a restoreSession of that id
\* right after it fails with not-found.
C5_PurgeIsTerminal ==
    [][/\ (last'.op = "delete" /\ last'.status = "ok")
          => (files'[last'.rpath] = NoFile /\ ~HasEntry(Journal', last'.rid))
       /\ (last.op = "delete" /\ last.status = "ok"
           /\ last'.op = "restore" /\ last'.arg = last.rid)
          => last'.status = "notfound"]_vars

\* C6: restoreSession(id) with no journal entry whose id is id throws
\* 'not found in trash' and changes neither the journal nor any file.
C6_RestoreNotFound ==
    [][(last'.op = "restore" /\ ~HasEntry(Journal, last'.arg))
       => (/\ last'.status = "notfound"
           /\ files' = files /\ dirs' = dirs /\ manifestFile' = manifestFile)]_vars

\* a restore by a proper prefix of a trashed id was rejected
C6_Witness ==
    /\ last.op = "restore" /\ last.status = "notfound"
    /\ \E i \in 1..Len(Journal) :
           startsWith(Journal[i].id, last.arg) /\ Journal[i].id # last.arg

PrefixIdx(items, id) == {i \in 1..Len(items) : startsWith(items[i].id, id)}

\* C7 as stated: restoreSession(id) with a prefix that matches exactly one
\* entry, whose file is in the trash and with the journal write succeeding,
\* restores that entry's file and removes the entry.
C7_RestoreByPrefix ==
    [][(/\ last'.op = "restore" /\ ~Faulted(last')
        /\ Cardinality(PrefixIdx(Journal, last'.arg)) = 1)
       => LET idx == CHOOSE i \in PrefixIdx(Journal, last'.arg) : TRUE
              item == Journal[idx]
          IN files[item.trashPath] # NoFile
             => (/\ last'.status = "ok"
                 /\ files'[resolveOriginalPath(item.originalPath)] = files[item.trashPath]
                 /\ Journal' = SubSeq(Journal, 1, idx - 1)
                                   \o SubSeq(Journal, idx + 1, Len(Journal)))]_vars

FirstWithId(items, id, idx) ==
    /\ idx \in 1..Len(items)
    /\ items[idx].id = id
    /\ \A j \in 1..(idx - 1) : items[j].id # id

\* C7 as amended: restoreSession(id) looks the entry up by exact id only. A
\* restore that succeeds has moved the file of the first entry whose id equals
\* id back to that entry's original path and removed that entry; with such an
\* entry, its file in the trash and the journal write succeeding, the restore
\* succeeds; an id that is only a prefix of entries' ids is not found.
C7_RestoreByExactId ==
    [][last'.op = "restore"
       => /\ last'.status = "ok"
             => \E idx \in 1..Len(Journal) :
                    /\ FirstWithId(Journal, last'.arg, idx)
                    /\ files[Journal[idx].trashPath] # NoFile
                    /\ files'[resolveOriginalPath(Journal[idx].originalPath)]
                           = files[Journal[idx].trashPath]
                    /\ files'[Journal[idx].trashPath] = NoFile
                    /\ last'.rpath = resolveOriginalPath(Journal[idx].originalPath)
                    /\ Journal' = SubSeq(Journal, 1, idx - 1)
                                      \o SubSeq(Journal, idx + 1, Len(Journal))
          /\ (/\ ~Faulted(last')
              /\ \E idx \in 1..Len(Journal) :
                     FirstWithId(Journal, last'.arg, idx)
                     /\ files[Journal[idx].trashPath] # NoFile)
             => last'.status = "ok"
          /\ (PrefixIdx(Journal, last'.arg) # {} /\ ~HasEntry(Journal, last'.arg))
             => last'.status = "notfound"]_vars

\* a restore by exact id has put the file back and removed the entry
C7_Witness ==
    /\ last.op = "restore" /\ last.status = "ok"
    /\ files[last.rpath] = last.content
    /\ ~HasEntry(Journal, last.arg)

\* C8: a deleteFromTrash(id) that succeeds has removed an entry whose id
\* equals id when there is one, and otherwise the entry of the only id that
\* starts with id.
C8_PurgeMatch ==
    [][(last'.op = "delete" /\ last'.status = "ok")
       => \E idx \in 1..Len(Journal) :
              /\ Journal' = SubSeq(Journal, 1, idx - 1)
                                \o SubSeq(Journal, idx + 1, Len(Journal))
              /\ last'.rid = Journal[idx].id
              /\ IF HasEntry(Journal, last'.arg)
                 THEN Journal[idx].id = last'.arg
                 ELSE /\ startsWith(Journal[idx].id, last'.arg)
                      /\ Cardinality({Journal[i].id : i \in PrefixIdx(Journal, last'.arg)}) = 1]_vars

Older(item, n, t) == getTime(item.trashedAt) < t - n * MsPerDay

OlderIdx(items, n, t) == {i \in 1..Len(items) : Older(items[i], n, t)}

\* C9: an emptyTrash(N) that succeeds leaves as the journal exactly the
\* entries not trashed earlier than now minus N days, in their order, has
\* deleted the trashed file of every other entry, and returns the two counts,
\* whose sum is the size of the journal before the call.
C9_EmptyPartition ==
    [][(last'.op = "empty" /\ last'.status = "ok")
       => LET n == last'.arg[1]
              Young(item) == ~Older(item, n, now)
          IN /\ manifestFile'.kind = "ok"
             /\ manifestFile'.items = SelectSeq(Journal, Young)
             /\ \A i \in OlderIdx(Journal, n, now) :
                    files'[Journal[i].trashPath] = NoFile
             /\ last'.removed = Cardinality(OlderIdx(Journal, n, now))
             /\ last'.remaining = Len(Journal) - Cardinality(OlderIdx(Journal, n, now))
             /\ last'.removed + last'.remaining = Len(Journal)]_vars

\* emptyTrash(1) has removed one entry and kept another
C9_Witness ==
    /\ last.op = "empty" /\ last.status = "ok" /\ last.arg = <<1>>
    /\ last.removed >= 1 /\ last.remaining >= 1
    /\ Len(Journal) = last.remaining

\* C10: an emptyTrash(0) that succeeds leaves the journal empty and returns
\* remaining = 0, whatever the entries' trashedAt.
C10_EmptyAll ==
    [][(last'.op = "empty" /\ last'.arg = <<0>> /\ last'.status = "ok")
       => (Journal' = <<>> /\ last'.remaining = 0)]_vars

\* items without its idx-th element
Without(items, idx) == SubSeq(items, 1, idx - 1) \o SubSeq(items, idx + 1, Len(items))

\* C11: every trashSession, restoreSession, deleteFromTrash and emptyTrash
\* that returns has written the journal file: the file then parses, and read
\* back it is the journal the call started from with the entry of the moved
\* session appended (trash), one entry taken out (restore, delete), or the
\* kept entries only (empty).
C11_JournalPersisted ==
    [][(last'.op \in {"trash", "restore", "delete", "empty"} /\ last'.status = "ok")
       => /\ manifestFile'.kind = "ok"
          /\ Journal' = manifestFile'.items
          /\ CASE last'.op = "trash" ->
                    /\ Len(Journal') = Len(Journal) + 1
                    /\ SubSeq(Journal', 1, Len(Journal)) = Journal
                    /\ Journal'[Len(Journal')].id = last'.arg
                    /\ Journal'[Len(Journal')].trashPath = last'.rpath
               [] last'.op \in {"restore", "delete"} ->
                    \E i \in 1..Len(Journal) :
                        /\ Journal[i].id = last'.rid
                        /\ Journal' = Without(Journal, i)
               [] last'.op = "empty" ->
                    /\ Len(Journal') = last'.remaining
                    /\ \A i \in 1..Len(Journal') :
                           \E j \in 1..Len(Journal) : Journal'[i] = Journal[j]]_vars

\* an emptyTrash that removed nothing has written an empty journal file
\* while a trashed file is in the trash
C11_Witness ==
    /\ last.op = "empty" /\ last.status = "ok" /\ last.removed = 0
    /\ manifestFile = [kind |-> "ok", items |-> <<>>]
    /\ \E p \in TrashPaths : files[p] # NoFile

\* C12: with the journal file missing or unparseable, listTrash returns the
\* empty list without an error and restoreSession of any id, the ids of the
\* sessions whose files are in the trash included, throws 'not found'.
C12_DamagedJournalIsEmpty ==
    [][(manifestFile.kind # "ok")
       => /\ (last'.op = "list") => (last'.status = "ok" /\ last'.items = <<>>)
          /\ (last'.op = "restore") => last'.status = "notfound"]_vars

\* a restore by the id of a session whose file is in the trash was rejected
\* because the journal file is unparseable
C12_Witness ==
    /\ last.op = "restore" /\ last.status = "notfound"
    /\ manifestFile.kind = "corrupt"
    /\ \E s \in Sessions : s.id = last.arg /\ files[trashPathOf(s)] # NoFile

\* the entry the cache holds for path p, loaded from the file if need be
CacheEntry(p) == loadCache(memoryCache, cacheFile).sessions[p]

\* the live file at p is as the entry e recorded it
Unchanged(e, p) ==
    stats[p] # NoStat /\ e.mtime = stats[p].mtimeMs /\ e.size = stats[p].size

\* C13: setCached(path, summary) on an existing file records the file's
\* mtime and size with the summary; getCached(path) returns the summary of
\* the entry when the live file's mtime and size both equal the recorded ones
\* and null when either differs or the file is gone; right after the
\* setCached it returns that summary.
C13_GetAfterSet ==
    [][/\ (last'.op = "setCached" /\ stats[last'.path] # NoStat)
           => memoryCache'.sessions[last'.path] =
                  [mtime |-> stats[last'.path].mtimeMs,
                   size |-> stats[last'.path].size, data |-> last'.data]
       /\ (last'.op = "getCached" /\ ~last'.analyze)
           => last'.data = IF CacheEntry(last'.path) # NoEntry
                              /\ Unchanged(CacheEntry(last'.path), last'.path)
                           THEN CacheEntry(last'.path).data
                           ELSE NoData
       /\ (/\ last.op = "setCached" /\ last'.op = "getCached"
           /\ last'.path = last.path /\ ~last'.analyze)
           => last'.data = IF stats[last.path] # NoStat THEN last.data ELSE NoData]_vars

\* getCached returned null for a file whose size alone differs from the
\* recorded one
C13_Witness ==
    /\ last.op = "getCached" /\ ~last.analyze /\ last.data = NoData
    /\ CacheEntry(last.path) # NoEntry
    /\ stats[last.path] # NoStat
    /\ CacheEntry(last.path).mtime = stats[last.path].mtimeMs
    /\ CacheEntry(last.path).size # stats[last.path].size

\* C14: a getCached(path) that finds the entry of path invalid (the live
\* mtime or size differs from the recorded one, or stat fails) leaves the
\* cache without an entry for path.
C14_InvalidEntryRemoved ==
    [][(/\ last'.op = "getCached" /\ ~last'.analyze
        /\ CacheEntry(last'.path) # NoEntry
        /\ ~Unchanged(CacheEntry(last'.path), last'.path))
       => memoryCache'.sessions[last'.path] = NoEntry]_vars

\* C15: getCached(path, {requireAnalyzed: true}) returns only summaries
\* with analyzed = true: the entry of a fast scan is reported absent, also
\* when the file's mtime and size still match; an analyzed entry is returned
\* when they match.
C15_RequireAnalyzed ==
    [][(last'.op = "getCached" /\ last'.analyze)
       => /\ last'.data # NoData => last'.data.analyzed
          /\ (CacheEntry(last'.path) # NoEntry /\ ~CacheEntry(last'.path).data.analyzed)
                 => last'.data = NoData
          /\ (/\ CacheEntry(last'.path) # NoEntry
              /\ CacheEntry(last'.path).data.analyzed
              /\ Unchanged(CacheEntry(last'.path), last'.path))
                 => last'.data = CacheEntry(last'.path).data]_vars

\* a fast-scan entry whose file is unchanged was reported absent
C15_Witness ==
    /\ last.op = "getCached" /\ last.analyze /\ last.data = NoData
    /\ CacheEntry(last.path) # NoEntry
    /\ ~CacheEntry(last.path).data.analyzed
    /\ Unchanged(CacheEntry(last.path), last.path)

\* C16: a flushCache that follows a flushCache, the in-memory cache not
\* having changed in between, writes nothing to the cache file.
C16_FlushNoOp ==
    [][(/\ last.op = "flushCache" /\ last.status = "ok"
        /\ last'.op = "flushCache" /\ ~last'.ranPrune)
       => ~last'.wrote]_vars

\* C17: a process that finds a cache file that does not parse starts from
\* the empty cache: getCached returns null, setCached stores its entry in an
\* otherwise empty cache, pruneCache prunes nothing and flushCache writes
\* nothing, none of them throwing.
C17_CorruptCacheFile ==
    [][(/\ memoryCache.isNull /\ cacheFile.kind = "corrupt"
        /\ last'.op \in {"getCached", "setCached", "pruneCache", "flushCache"}
        /\ ~last'.ranPrune)
       => /\ last'.status = "ok"
          /\ last'.op = "getCached" => (last'.data = NoData /\ memoryCache' = EmptyCache)
          /\ last'.op = "setCached"
                 => /\ ~memoryCache'.isNull
                    /\ \A p \in CachePaths \ {last'.path} : memoryCache'.sessions[p] = NoEntry
                    /\ stats[last'.path] # NoStat
                           => memoryCache'.sessions[last'.path].data = last'.data
          /\ last'.op = "pruneCache"
                 => (last'.prunedCount = 0 /\ ~last'.wrote /\ memoryCache' = EmptyCache)
          /\ last'.op = "flushCache" => (~last'.wrote /\ cacheFile' = cacheFile)]_vars

\* the first call of a process that found an unparseable cache file was a
\* setCached, and its entry is in the cache
C17_Witness ==
    /\ last.op = "setCached" /\ last.loaded
    /\ cacheFile.kind = "corrupt"
    /\ memoryCache.sessions[last.path].data = last.data

\* the paths with an entry whose file does not exist
Vanished == {p \in CachePaths : CacheEntry(p) # NoEntry /\ stats[p] = NoStat}

\* C18: pruneCache removes the entries whose file does not exist and no
\* other, leaves the others as they were and returns how many it removed.
C18_PruneExact ==
    [][(last'.op = "pruneCache" /\ last'.status = "ok")
       => /\ \A p \in CachePaths :
                 memoryCache'.sessions[p] =
                     IF p \in Vanished THEN NoEntry ELSE CacheEntry(p)
          /\ last'.prunedCount = Cardinality(Vanished)]_vars

\* pruneCache removed one entry and kept the entry of a file that has
\* changed since it was cached
C18_Witness ==
    /\ last.op = "pruneCache" /\ last.status = "ok" /\ last.prunedCount = 1
    /\ \E p \in CachePaths :
           /\ memoryCache.sessions[p] # NoEntry
           /\ ~Unchanged(memoryCache.sessions[p], p)

\* C19: a classified summary whose category is empty, hook-only or
\* snapshot-only has autoTier 1, whatever KEEP signals it carries.
C19_Tier1Dominates ==
    (last.op = "classify"
     /\ summary.category \in {"empty", "hook-only", "snapshot-only"})
        => summary.autoTier = TIER_AUTO_DELETE

\* an empty-category summary to which every KEEP rule applies is AUTO-DELETE
C19_Witness ==
    /\ last.op = "classify" /\ summary.category = "empty"
    /\ summary.turnCount >= 4 /\ summary.totalToolCalls >= 3
    /\ summary.thinkingBlocks >= 2 /\ summary.uniqueFilesCount >= 2
    /\ summary.durationMs > 300000 /\ summary.fileSizeBytes > 50000
    /\ summary.userMessageCount >= 3 /\ summary.assistantMessageCount >= 3
    /\ summary.autoTier = TIER_AUTO_DELETE

\* C20: the tiers are tested in the order 1, 4, 2, first match wins, 3 being
\* the fallback: an AUTO-DELETE condition gives autoTier 1; none but a KEEP
\* condition gives 4, a SUGGESTED condition notwithstanding; neither but a
\* SUGGESTED condition gives 2; autoTier is 3 exactly when no condition holds.
C20_TierOrder ==
    last.op = "classify"
        => /\ isTier1(summary) => summary.autoTier = TIER_AUTO_DELETE
           /\ (~isTier1(summary) /\ isTier4(summary)) => summary.autoTier = TIER_KEEP
           /\ (~isTier1(summary) /\ ~isTier4(summary) /\ isTier2(summary))
                  => summary.autoTier = TIER_SUGGESTED
           /\ summary.autoTier = TIER_REVIEW
                  <=> (~isTier1(summary) /\ ~isTier4(summary) /\ ~isTier2(summary))

\* a summary with a KEEP signal and a SUGGESTED signal was classified KEEP
C20_Witness ==
    /\ last.op = "classify"
    /\ ~isTier1(summary) /\ isTier4(summary) /\ isTier2(summary)
    /\ summary.autoTier = TIER_KEEP

\* C21: a summary that classify gave autoTier KEEP has an empty reasons list,
\* whatever reasons it carried when it was handed to classify.
C21_KeepHasNoReasons ==
    (last.op = "classify" /\ summary.autoTier = TIER_KEEP)
        => summary.junkReasons = << >>

\* a summary that carried the reason of an earlier SUGGESTED classification
\* was classified KEEP and carries no reason
C21_Witness ==
    /\ last.op = "classify"
    /\ last.session.junkReasons # << >>
    /\ last.session.autoTier = TIER_SUGGESTED
    /\ summary.autoTier = TIER_KEEP
    /\ summary.junkReasons = << >>


\* none of the specific review reasons applies to the summary
NoReviewReason(session) ==
    /\ ~le(session.userMessageCount, 2)
    /\ ~(lt(session.durationMs, 120000) /\ gt(session.durationMs, 0))
    /\ session.assistantMessageCount # 0

\* C22: a summary that classify gave an autoTier other than KEEP has at least
\* one reason; one that reached the REVIEW fallback has the single reason
\* 'needs manual review' exactly when no specific review reason applies to it.
C22_NonKeepHasReasons ==
    (last.op = "classify" /\ summary.autoTier # TIER_KEEP)
        => /\ Len(summary.junkReasons) >= 1
           /\ summary.autoTier = TIER_REVIEW
                  => (NoReviewReason(summary)
                          <=> summary.junkReasons = <<"needs manual review">>)

\* a summary reached the fallback with no specific reason and was given the
\* default one
C22_Witness ==
    /\ last.op = "classify"
    /\ summary.autoTier = TIER_REVIEW
    /\ NoReviewReason(summary)
    /\ summary.junkReasons = <<"needs manual review">>


\* the summary carries a tier override
HasOverride(session) ==
    session.tierOverride # null /\ session.tierOverride # undefined

\* C23: classify of a summary that carries a tier override sets tier to the
\* override, and autoTier and the reasons to what classify gives the same
\* summary without the override.
C23_OverrideKeepsAutoTier ==
    (last.op = "classify" /\ HasOverride(last.session))
        => LET plain == classify([last.session EXCEPT !.tierOverride = null])
           IN /\ summary.tier = last.session.tierOverride
              /\ summary.autoTier = plain.autoTier
              /\ summary.autoTier = plain.tier
              /\ summary.junkReasons = plain.junkReasons

\* an override of 2 on a summary the rules classify KEEP: tier 2, autoTier 4
C23_Witness ==
    /\ last.op = "classify"
    /\ last.session.tierOverride = TIER_SUGGESTED
    /\ summary.tier = TIER_SUGGESTED
    /\ summary.autoTier = TIER_KEEP
    /\ isTier4(summary) /\ ~isTier1(summary)


\* C24: the loadSessions that follows a setTierOverride(id, tier) returns the
\* session id with tier equal to the override and autoTier equal to the tier
\* the rules compute.
C24_OverrideOnNextLoad ==
    [][(last.op = "setTierOverride" /\ last'.op = "loadSessions")
          => \A f \in DOMAIN last'.sessions :
                 f.id = last.arg
                     => LET session == last'.sessions[f]
                            plain == classify([session EXCEPT !.tierOverride = null])
                        IN /\ session.tier = metadata[f.id]
                           /\ session.autoTier = plain.autoTier]_vars


\* C25: after classify the score is 1.0, 0.7, 0.4 or 0.1 (here in tenths) as
\* the final tier, the override applied, is 1, 2, 3 or 4, and junkLabel of
\* the score is junk for tiers 1 and 2, maybe for tier 3, real for tier 4.
C25_ScoreFromTier ==
    last.op = "classify"
        => /\ summary.tier = 1 => (summary.junkScore = 10 /\ last.junkLabel = "junk")
           /\ summary.tier = 2 => (summary.junkScore = 7 /\ last.junkLabel = "junk")
           /\ summary.tier = 3 => (summary.junkScore = 4 /\ last.junkLabel = "maybe")
           /\ summary.tier = 4 => (summary.junkScore = 1 /\ last.junkLabel = "real")
           /\ summary.tier \in 1..4

\* a summary the rules classify KEEP, overridden to SUGGESTED, has score 0.7
\* and label junk
C25_Witness ==
    /\ last.op = "classify"
    /\ summary.autoTier = TIER_KEEP /\ summary.tier = TIER_SUGGESTED
    /\ summary.junkScore = 7 /\ last.junkLabel = "junk"
    /\ summary.fileSizeBytes = 60000


\* the numeric fields of a summary that the classifier reads
NumericFields ==
    {"fileSizeBytes", "userMessageCount", "assistantMessageCount",
     "totalRecordCount", "durationMs", "turnCount", "totalToolCalls",
     "thinkingBlocks", "uniqueFilesCount"}

\* C26: a classified summary in which a numeric field is undefined has the
\* tier, autoTier and reasons that classify gives the same summary with that
\* field set to 0.
C26_UndefinedIsZero ==
    last.op = "classify"
        => \A f \in NumericFields :
               last.session[f] = undefined
                   => LET zero == classify([last.session EXCEPT ![f] = 0])
                      IN /\ summary.tier = zero.tier
                         /\ summary.autoTier = zero.autoTier
                         /\ summary.junkReasons = zero.junkReasons


\* the batch a file belongs to
BatchNo(k) == (k - 1) \div batchSize

\* C27: during a scan at most batchSize scans are pending, all of one batch;
\* while a scan is pending every file of an earlier batch has settled and no
\* file of a later batch has started; and when the scan returns every file
\* has settled and the results are exactly the files whose scan gave a
\* summary.
C27_BoundedBatches ==
    /\ Cardinality(inflight) <= batchSize
    /\ \A j \in inflight :
           /\ outcomes[j] = "pending"
           /\ \A k \in 1..scanTotal :
                  /\ BatchNo(k) < BatchNo(j) => (k \in DOMAIN outcomes /\ outcomes[k] # "pending")
                  /\ BatchNo(k) > BatchNo(j) => k \notin DOMAIN outcomes
                  /\ k \in inflight => BatchNo(k) = BatchNo(j)
    /\ scanPc = "done"
           => /\ DOMAIN outcomes = 1..scanTotal
              /\ \A k \in 1..scanTotal : outcomes[k] # "pending"
              /\ {scanResults[n] : n \in 1..Len(scanResults)}
                     = {k \in 1..scanTotal : outcomes[k] = "summary"}
              /\ Len(scanResults) = Cardinality({k \in 1..scanTotal : outcomes[k] = "summary"})

\* a scan of more than one batch has returned; a scan of the first batch
\* failed, and a file of the first batch and one of the last are in the results
C27_Witness ==
    /\ scanPc = "done"
    /\ scanTotal > batchSize
    /\ \E k \in 1..batchSize : outcomes[k] = "null"
    /\ \E n \in 1..Len(scanResults) : scanResults[n] <= batchSize
    /\ \E n \in 1..Len(scanResults) : BatchNo(scanResults[n]) = BatchNo(scanTotal)
    /\ BatchNo(scanTotal) > 0


\* the companion directory of a session file, and its place in the trash
CompanionOf(path) == replaceJsonl(path)

TrashCompanionOf(path) == join(TRASH_DIR, basename(replaceJsonl(path)))

\* C28: a trashSession that returns has moved the companion directory the
\* session had into the trash area, and a restoreSession that returns has
\* moved the file and the companion found in the trash back to the original
\* location, leaving neither in the trash.
C28_CompanionFollows ==
    [][/\ (last'.op = "trash" /\ last'.status = "ok"
            /\ dirs[CompanionOf(last'.path)] # NoDir)
           => /\ dirs'[CompanionOf(last'.path)] = NoDir
              /\ dirs'[TrashCompanionOf(last'.path)] # NoDir
       /\ (last'.op = "restore" /\ last'.status = "ok")
           => /\ files'[last'.rpath] # NoFile
              /\ files'[join(TRASH_DIR, basename(last'.rpath))] = NoFile
              /\ dirs'[TrashCompanionOf(last'.rpath)] = NoDir
              /\ dirs[TrashCompanionOf(last'.rpath)] # NoDir
                     => dirs'[CompanionOf(last'.rpath)] # NoDir]_vars


\* C29: a restoreSession(id) that throws, called where the journal has an
\* entry with that id whose file is at its trash path, leaves the file at the
\* trash path, nothing moved to the original path, and an entry with that id
\* in the journal.
C29_RestoreAllOrNothing ==
    [][(last'.op = "restore" /\ last'.status # "ok" /\ HasEntry(Journal, last'.arg))
          => LET idx == CHOOSE k \in 1..Len(Journal) :
                            /\ Journal[k].id = last'.arg
                            /\ \A j \in 1..(k - 1) : Journal[j].id # last'.arg
                 item == Journal[idx]
             IN files[item.trashPath] # NoFile
                    => /\ files'[item.trashPath] = files[item.trashPath]
                       /\ files'[resolveOriginalPath(item.originalPath)]
                              = files[resolveOriginalPath(item.originalPath)]
                       /\ HasEntry(Journal', last'.arg)]_vars


\* C30: a setCached and a getCached leave cache.json as it is, whatever they
\* change in memory; cache.json changes only in a flushCache, a clearCache,
\* or a pruneCache that found an entry to remove.
C30_DiskOnlyOnFlush ==
    [][/\ last'.op \in {"setCached", "getCached"} => cacheFile' = cacheFile
       /\ cacheFile' # cacheFile
           => \/ last'.op \in {"flushCache", "clearCache"}
              \/ /\ last'.op = "pruneCache"
                 /\ stalePaths(loadCache(memoryCache, cacheFile)) # {}]_vars

\* cache.json has been written, and setCached has since stored an entry that
\* is in memory and not in the file
C30_Witness ==
    /\ last.op = "setCached"
    /\ cacheFile.kind = "ok"
    /\ ~memoryCache.isNull
    /\ memoryCache.sessions[last.path] # NoEntry
    /\ memoryCache.sessions[last.path].data = last.data
    /\ cacheFile.sessions[last.path] = NoEntry

\* a step that is one flushCache call
FlushStep == last'.op = "flushCache" /\ flushCalls' = flushCalls + 1

\* the call's save threw: there was a cache to save and the call failed
SaveThrew == ~memoryCache.isNull /\ last'.status # "ok"

ParsedRecords ==
    IF last.op = "fastScan"
    THEN parseLines(readHeadTail(fileLines, headCount, tailCount))
    ELSE parseLines(readAllLines(fileLines))

HasRecord(records, types) == \E k \in 1..Len(records) : records[k].type \in types

HasHookEvent(records) ==
    \E k \in 1..Len(records) :
        records[k].type = "progress" /\ records[k].dataType = "hook_progress"

\* C32: the category of a scanned summary is empty iff the parsed records
\* hold no user, assistant or progress record, conversation iff they hold a
\* user or assistant record, hook-only iff they hold progress records, no
\* user or assistant record and a hook progress event, and snapshot-only in
\* every other case
C32_OneCategory ==
    last.op \in {"fastScan", "fullScan"}
        => LET records == ParsedRecords
               talk == HasRecord(records, {"user", "assistant"})
               progress == HasRecord(records, {"progress"})
           IN /\ summary.category \in {"empty", "conversation", "hook-only", "snapshot-only"}
              /\ summary.category = "empty" <=> (~talk /\ ~progress)
              /\ summary.category = "conversation" <=> talk
              /\ summary.category = "hook-only"
                     <=> (progress /\ ~talk /\ HasHookEvent(records))
              /\ summary.category = "snapshot-only"
                     <=> (progress /\ ~talk /\ ~HasHookEvent(records))

\* a full scan of a file with a hook event, an assistant record and a line
\* that does not parse has called it a conversation
C32_Witness ==
    /\ last.op = "fullScan"
    /\ summary.category = "conversation"
    /\ HasHookEvent(ParsedRecords)
    /\ ~HasRecord(ParsedRecords, {"user"})
    /\ \E k \in 1..Len(fileLines) : fileLines[k].json = NoJson

\* C38: the fast scan of a file of at most headCount + tailCount lines
\* yields the message counts, the record count, the category and the first
\* and last timestamps that the full scan of the file yields
C38_FastScanIsFullScan ==
    (last.op = "fastScan" /\ Len(fileLines) <= headCount + tailCount)
        => LET full == parseRecords(parseLines(readAllLines(fileLines)))
           IN /\ summary.userMessageCount = full.userMessageCount
              /\ summary.assistantMessageCount = full.assistantMessageCount
              /\ summary.totalRecordCount = full.totalRecordCount
              /\ summary.category = full.category
              /\ summary.firstTimestamp = full.firstTimestamp
              /\ summary.lastTimestamp = full.lastTimestamp

\* the candidate languages whose count is at least 3 and above every other
\* candidate's
StrictWinners(text) ==
    {lang \in DOMAIN LANG_HINTS :
        /\ matchCount(text, lang) >= 3
        /\ \A other \in DOMAIN LANG_HINTS \ {lang} :
               matchCount(text, other) < matchCount(text, lang)}

\* C33: the language guess is a candidate language exactly when the text
\* has at least 20 characters and that candidate's hint count is at least 3
\* and strictly above every other candidate's; in every other case, a tie
\* between the best candidates included, it is 'en'
C33_StrictMajority ==
    last.op = "analyzeRecords"
        => IF textLength(userText) >= 20 /\ StrictWinners(userText) # {}
           THEN summary.language \in StrictWinners(userText)
           ELSE summary.language = "en"

\* C34: no two entries of the journal have the same id, and no two the same
\* trash path
C34_JournalEntriesDistinct ==
    \A i, j \in 1..Len(Journal) :
        i # j => /\ Journal[i].id # Journal[j].id
                 /\ Journal[i].trashPath # Journal[j].trashPath

\* the fields classify writes
Classification(session) ==
    [tier |-> session.tier, tierLabel |-> session.tierLabel,
     autoTier |-> session.autoTier, junkScore |-> session.junkScore,
     junkReasons |-> session.junkReasons]

\* C37: what classify writes on a summary is what it writes on the same
\* summary with no earlier classification on it, and classifying a summary
\* that was just classified leaves it as it is
C37_ClassifyIdempotent ==
    [][last'.op = "classify"
       => /\ Classification(summary') = Classification(classify(Unclassified @@ summary))
          /\ last.op = "classify" => summary' = summary]_vars

\* a summary classified REVIEW with its reasons has been classified again
C37_Witness ==
    /\ last.op = "classify"
    /\ last.session = summary
    /\ summary.autoTier = TIER_REVIEW
    /\ Len(summary.junkReasons) >= 2

\* C39: every session that loadSessions has classified has autoTier in 1..4
\* and tier in 1..4 with a label of TIER_LABELS and a score of TIER_SCORES,
\* whatever overrides the tier route has stored
C39_TierInRange ==
    last.op = "loadSessions"
        => \A f \in DOMAIN last.sessions :
               LET session == last.sessions[f]
               IN /\ session.autoTier \in DOMAIN TIER_LABELS
                  /\ session.tier \in DOMAIN TIER_LABELS
                  /\ session.tierLabel = TIER_LABELS[session.tier]
                  /\ session.junkScore = TIER_SCORES[session.tier]

\* C36: once the trashSession calls under way have all returned, the
\* journal has an entry for each session one of them moved and for every
\* file in the trash
C36_NoLostEntry ==
    (\A t \in Tasks : tasks[t].pc \in {"idle", "done"})
        => /\ \A t \in Tasks :
                  (tasks[t].pc = "done" /\ tasks[t].status = "ok")
                      => HasEntry(Journal, tasks[t].session.id)
           /\ FileHasEntry(Journal, files)

\* C35: the cache file that the flush after a batch writes has an entry for
\* every file whose setCached completed in the batch
C35_StoredEntriesFlushed ==
    (last.op = "flushCache" /\ last.status = "ok")
        => \A t \in Tasks :
               (tasks[t].pc = "done" /\ tasks[t].stored)
                   => cacheFile.sessions[tasks[t].filePath] # NoEntry

====
